---------------------------- MODULE Spec2Model ----------------------------
(***************************************************************************)
(* Article processing pipeline of antia.ga: duplicate detection,           *)
(* clustering, synthesis and the orchestration in                          *)
(* GeminiProcessor.processArticle, over the Firestore collections          *)
(* raw-articles, articles and article-clusters.                            *)
(*                                                                         *)
(* Texts are sequences of characters, each character a string ("e_acute"  *)
(* is the single character U+00E9).  md5 is modelled as an                *)
(* injective tagging of its input (only equality of digests is used).      *)
(* Scores and confidences are rationals, records [num, den].  A field a    *)
(* JSON reply or a stored document lacks holds the falsy value of its      *)
(* type ("", 0, <<>>).                                                     *)
(***************************************************************************)
EXTENDS Integers, Sequences, FiniteSets, TLC

(***************************************************************************)
(* Bounds of the model                                                     *)
(***************************************************************************)
\* raw articles the scrapers may store
MaxRaw == 3
\* documents of the articles collection while invocations run concurrently
MaxArticles == 2
\* documents of the article-clusters collection while invocations run
\* concurrently
MaxClusters == 2
\* longest matchingArticleIds list the duplicate-judgment capability returns
MaxMatch == 2
\* the clock advances in steps of HoursPerTick up to MaxNow (hours)
MaxNow == 60
HoursPerTick == 60
\* the items published while the processing pipeline runs: the first
\* MaxFeed of Items
MaxFeed == 3

(***************************************************************************)
(* Program constants                                                       *)
(***************************************************************************)
\* DuplicateDetector.generateContentHash: content.slice(0, 200)
HashPrefixLen == 200
\* quickHashCheck / titleSimilarityCheck: timeframeHours = 48
LookbackHours == 48
\* quickHashCheck: .limit(5)
HashQueryLimit == 5
\* titleSimilarityCheck: .limit(100)
CandidatePoolLimit == 100
\* findExistingCluster: articleIds.slice(0, 10)
ArrayContainsAnyLimit == 10
\* handleDuplicate: clusterArticles.length >= 3
SynthesisThreshold == 3
\* synthesizeCluster: articles.length < 2
SynthesisMinimum == 2
\* calculateWordSimilarity: w.length > 3
MinWordLen == 3

(***************************************************************************)
(* Text: String.prototype operations used by the normalisations            *)
(***************************************************************************)
Min(a, b) == IF a < b THEN a ELSE b

Max(a, b) == IF a < b THEN b ELSE a

\* s.slice(0, n)
Slice(s, n) == SubSeq(s, 1, Min(Len(s), n))

LowerLetters ==
    {"a", "b", "c", "d", "e", "f", "g", "h", "i", "j", "k", "l", "m",
     "n", "o", "p", "q", "r", "s", "t", "u", "v", "w", "x", "y", "z"}

Digits == {"0", "1", "2", "3", "4", "5", "6", "7", "8", "9"}

\* the characters \s matches
Whitespace == {" ", "\t", "\n"}

\* the combining grave and acute accents (in the range U+0300..U+036F)
CombiningMarks == {"U+0300", "U+0301"}

LowerChar(c) ==
    CASE c = "B" -> "b"
      [] c = "F" -> "f"
      [] c = "G" -> "g"
      [] c = "L" -> "l"
      [] c = "M" -> "m"
      [] c = "S" -> "s"
      [] c = "V" -> "v"
      [] c = "E_acute" -> "e_acute"
      [] OTHER -> c

\* toLowerCase()
ToLower(s) == [i \in 1..Len(s) |-> LowerChar(s[i])]

\* canonical decomposition of one character
DecomposeChar(c) ==
    CASE c = "e_acute" -> <<"e", "U+0301">>
      [] c = "e_grave" -> <<"e", "U+0300">>
      [] OTHER -> <<c>>

RECURSIVE NFD(_)
\* normalize("NFD")
NFD(s) == IF s = <<>> THEN <<>> ELSE DecomposeChar(Head(s)) \o NFD(Tail(s))

\* replace(/[U+0300-U+036F]/g, "")
StripMarks(s) == SelectSeq(s, LAMBDA c : c \notin CombiningMarks)

\* replace(/[^a-z0-9\s]/g, "")
KeepAlnumSpace(s) ==
    SelectSeq(s, LAMBDA c : c \in LowerLetters \cup Digits \cup Whitespace)

RECURSIVE CollapseSpaces(_)
\* replace(/\s+/g, " ")
CollapseSpaces(s) ==
    IF s = <<>> THEN <<>>
    ELSE IF Head(s) \in Whitespace
         THEN IF Len(s) > 1 /\ s[2] \in Whitespace
              THEN CollapseSpaces(Tail(s))
              ELSE <<" ">> \o CollapseSpaces(Tail(s))
         ELSE <<Head(s)>> \o CollapseSpaces(Tail(s))

RECURSIVE TrimLeft(_)
TrimLeft(s) ==
    IF s # <<>> /\ Head(s) \in Whitespace THEN TrimLeft(Tail(s)) ELSE s

RECURSIVE TrimRight(_)
TrimRight(s) ==
    IF s # <<>> /\ s[Len(s)] \in Whitespace
    THEN TrimRight(SubSeq(s, 1, Len(s) - 1))
    ELSE s

\* trim()
Trim(s) == TrimLeft(TrimRight(s))

RECURSIVE SplitFrom(_, _, _)
SplitFrom(s, sep, cur) ==
    IF s = <<>> THEN <<cur>>
    ELSE IF Head(s) = sep
         THEN <<cur>> \o SplitFrom(Tail(s), sep, <<>>)
         ELSE SplitFrom(Tail(s), sep, Append(cur, Head(s)))

\* split(" ")
Split(s, sep) == SplitFrom(s, sep, <<>>)

RECURSIVE IsPrefixAt(_, _, _)
IsPrefixAt(s, kw, i) ==
    \/ kw = <<>>
    \/ /\ i <= Len(s)
       /\ s[i] = Head(kw)
       /\ IsPrefixAt(s, Tail(kw), i + 1)

\* s.includes(kw)
Includes(s, kw) == \E i \in 1..(Len(s) + 1) : IsPrefixAt(s, kw, i)

\* createHash("md5").update(x).digest("hex"): an injective tagging
MD5(x) == <<"md5", x>>

(***************************************************************************)
(* The scraped items the sources publish: title, content, url              *)
(***************************************************************************)
\* "Budget Gabon"
Title1 == <<"B", "u", "d", "g", "e", "t", " ", "G", "a", "b", "o", "n">>
\* "budget: gabon!"
Title2 ==
    <<"b", "u", "d", "g", "e", "t", ":", " ", "g", "a", "b", "o", "n", "!">>
\* "Gabon budget mort"
Title3 ==
    <<"G", "a", "b", "o", "n", " ", "b", "u", "d", "g", "e", "t", " ",
      "m", "o", "r", "t">>

\* "Le vote"
Content1 == <<"L", "e", " ", "v", "o", "t", "e">>
\* "le  vote."
Content2 == <<"l", "e", " ", " ", "v", "o", "t", "e", ".">>
\* "budget gabon le vote"
Content3 ==
    <<"b", "u", "d", "g", "e", "t", " ", "g", "a", "b", "o", "n", " ",
      "l", "e", " ", "v", "o", "t", "e">>

\* "Gabon"
Title4 == <<"G", "a", "b", "o", "n">>
\* "Le sport"
Content4 == <<"L", "e", " ", "s", "p", "o", "r", "t">>

\* "Gabon budget vote"
Title5 ==
    <<"G", "a", "b", "o", "n", " ", "b", "u", "d", "g", "e", "t", " ",
      "v", "o", "t", "e">>
\* "La loi"
Content5 == <<"L", "a", " ", "l", "o", "i">>

\* ScrapedItem / RSSItem: the url is the item's index
Items ==
    <<[title |-> Title1, content |-> Content1],
      [title |-> Title2, content |-> Content2],
      [title |-> Title3, content |-> Content3],
      [title |-> Title4, content |-> Content4],
      [title |-> Title5, content |-> Content5]>>

ItemIds == 1..Len(Items)

(***************************************************************************)
(* Rationals [num, den] with den > 0                                       *)
(***************************************************************************)
Rat(n, d) == [num |-> n, den |-> d]

Zero == Rat(0, 1)

One == Rat(1, 1)

\* a > b
RatGT(a, b) == a.num * b.den > b.num * a.den

RatEq(a, b) == a.num * b.den = b.num * a.den

\* Math.min(1, Math.max(0, x))
Clamp01(x) == IF RatGT(Zero, x) THEN Zero ELSE IF RatGT(x, One) THEN One ELSE x

\* x || d for a number: 0 (like a missing field) is falsy
OrNumber(x, d) == IF x.num = 0 THEN d ELSE x

RECURSIVE MaxRat(_)
\* Math.max(...xs) over a non-empty sequence
MaxRat(xs) ==
    IF Len(xs) = 1 THEN xs[1]
    ELSE LET m == MaxRat(Tail(xs))
         IN  IF RatGT(xs[1], m) THEN xs[1] ELSE m

Range(f) == {f[i] : i \in DOMAIN f}

(***************************************************************************)
(* Hashes                                                                  *)
(***************************************************************************)
\* DuplicateDetector.normalizeText
normalizeText(text) ==
    Trim(CollapseSpaces(KeepAlnumSpace(StripMarks(NFD(ToLower(text))))))

\* DuplicateDetector.generateContentHash
generateContentHash(title, content) ==
    MD5(normalizeText(title \o <<" ">> \o Slice(content, HashPrefixLen)))

\* BaseScraper.generateContentHash and RSSFetcher.generateContentHash
scraperContentHash(content) == MD5(Trim(ToLower(content)))

(***************************************************************************)
(* DuplicateDetector over a raw-articles collection rs (a sequence of      *)
(* documents whose index is the document id) at time t                     *)
(***************************************************************************)
TitleOf(doc) == Items[doc.item].title

\* per item: the detector's hash of the article, evaluated once
ItemHash ==
    [i \in ItemIds |-> generateContentHash(Items[i].title, Items[i].content)]

\* per item: the normalised title, evaluated once
ItemTitleNormalized == [i \in ItemIds |-> normalizeText(Items[i].title)]

ContentOf(doc) == Items[doc.item].content

IdsAsc(rs) == [i \in 1..Len(rs) |-> i]

IdsDesc(rs) == [i \in 1..Len(rs) |-> Len(rs) + 1 - i]

\* where("scrapedAt", ">=", cutoff), cutoff = now - timeframeHours
InWindow(doc, t) == doc.scrapedAt >= t - LookbackHours

\* DuplicateDetector.quickHashCheck
quickHashCheck(rs, t, id) ==
    LET hash == ItemHash[rs[id].item]
        snapshot ==
            Slice(SelectSeq(IdsAsc(rs),
                            LAMBDA d : /\ rs[d].contentHash = hash
                                       /\ InWindow(rs[d], t)),
                  HashQueryLimit)
        matchingIds == SelectSeq(snapshot, LAMBDA d : d # id)
    IN  [isDuplicate |-> Len(matchingIds) > 0, matchingIds |-> matchingIds]

\* the words of a normalised text longer than 3 characters
LongWords(text) == {w \in Range(Split(text, " ")) : Len(w) > MinWordLen}

\* DuplicateDetector.calculateWordSimilarity
calculateWordSimilarity(text1, text2) ==
    LET words1 == LongWords(text1)
        words2 == LongWords(text2)
    IN  IF words1 = {} \/ words2 = {} THEN Zero
        ELSE Rat(Cardinality(words1 \cap words2),
                 Cardinality(words1 \cup words2))

\* per pair of items: the similarity of their titles, evaluated once
ItemTitleScore ==
    [i \in ItemIds, j \in ItemIds |->
        calculateWordSimilarity(ItemTitleNormalized[i],
                                ItemTitleNormalized[j])]

TitleScore(rs, id, d) == ItemTitleScore[rs[id].item, rs[d].item]

\* titleSimilarityCheck keeping a candidate from a score of one half on:
\* what line 127 would do as `score >= 0.5`
titleSimilarityCheckFromHalf(rs, t, id) ==
    LET snapshot ==
            Slice(SelectSeq(IdsDesc(rs), LAMBDA d : InWindow(rs[d], t)),
                  CandidatePoolLimit)
    IN  SelectSeq(snapshot,
                  LAMBDA d : /\ d # id
                             /\ ~RatGT(Rat(1, 2), TitleScore(rs, id, d)))

\* DuplicateDetector.titleSimilarityCheck: the candidates' ids, newest first
titleSimilarityCheck(rs, t, id) ==
    LET snapshot ==
            Slice(SelectSeq(IdsDesc(rs), LAMBDA d : InWindow(rs[d], t)),
                  CandidatePoolLimit)
    IN  SelectSeq(snapshot,
                  LAMBDA d : d # id /\ RatGT(TitleScore(rs, id, d), Rat(1, 2)))

\* the duplicate-judgment call failed: error, timeout, no JSON, bad JSON
JudgeFailed == [failed |-> TRUE]

\* the catch block of aiDuplicateCheck deciding at one half: what lines
\* 239-243 would do as `maxScore > 0.5`
aiFallbackAboveHalf(rs, id, candidates) ==
    LET maxScore ==
            IF Len(candidates) > 0
            THEN MaxRat([i \in 1..Len(candidates) |->
                            TitleScore(rs, id, candidates[i])])
            ELSE Zero
        dup == RatGT(maxScore, Rat(1, 2))
    IN  [isDuplicate |-> dup,
         similarityScore |-> maxScore,
         matchingArticleIds |-> IF dup THEN <<candidates[1]>> ELSE <<>>,
         recommendation |-> IF dup THEN "MERGE" ELSE "SEPARATE",
         confidence |-> Rat(60, 100)]

\* the catch block of aiDuplicateCheck
aiFallback(rs, id, candidates) ==
    LET maxScore ==
            IF Len(candidates) > 0
            THEN MaxRat([i \in 1..Len(candidates) |->
                            TitleScore(rs, id, candidates[i])])
            ELSE Zero
        dup == RatGT(maxScore, Rat(7, 10))
    IN  [isDuplicate |-> dup,
         similarityScore |-> maxScore,
         matchingArticleIds |-> IF dup THEN <<candidates[1]>> ELSE <<>>,
         recommendation |-> IF dup THEN "MERGE" ELSE "SEPARATE",
         confidence |-> Rat(60, 100)]

\* GeminiProcessor's constructor throws without GEMINI_API_KEY, so the
\* detector it builds always has genAI
GenAIConfigured == TRUE

\* DuplicateDetector.aiDuplicateCheck; judge is the capability's outcome
aiDuplicateCheck(rs, id, candidates, judge) ==
    IF ~GenAIConfigured
    THEN [isDuplicate |-> FALSE, similarityScore |-> Zero,
          matchingArticleIds |-> <<>>, recommendation |-> "SEPARATE",
          confidence |-> Rat(50, 100)]
    ELSE IF Len(candidates) = 0
    THEN [isDuplicate |-> FALSE, similarityScore |-> Zero,
          matchingArticleIds |-> <<>>, recommendation |-> "SEPARATE",
          confidence |-> Rat(95, 100)]
    ELSE IF judge.failed
    THEN aiFallback(rs, id, candidates)
    ELSE [isDuplicate |-> judge.isDuplicate,
          similarityScore |-> Clamp01(OrNumber(judge.similarityScore, Zero)),
          matchingArticleIds |-> judge.matchingArticleIds,
          recommendation |->
              IF judge.recommendation = "" THEN "SEPARATE"
              ELSE judge.recommendation,
          confidence |-> Clamp01(OrNumber(judge.confidence, Rat(50, 100)))]

\* whether detectDuplicates reaches the duplicate-judgment call
JudgeInvoked(rs, t, id) ==
    /\ ~quickHashCheck(rs, t, id).isDuplicate
    /\ Len(titleSimilarityCheck(rs, t, id)) > 0
    /\ GenAIConfigured

\* DuplicateDetector.detectDuplicates
detectDuplicates(rs, t, id, judge) ==
    LET hashResult == quickHashCheck(rs, t, id)
        candidates == titleSimilarityCheck(rs, t, id)
    IN  IF hashResult.isDuplicate
        THEN [isDuplicate |-> TRUE, similarityScore |-> One,
              matchingArticleIds |-> hashResult.matchingIds,
              recommendation |-> "SKIP", confidence |-> Rat(99, 100)]
        ELSE IF Len(candidates) = 0
        THEN [isDuplicate |-> FALSE, similarityScore |-> Zero,
              matchingArticleIds |-> <<>>, recommendation |-> "SEPARATE",
              confidence |-> Rat(95, 100)]
        ELSE aiDuplicateCheck(rs, id, candidates, judge)

(***************************************************************************)
(* Outcomes of the external capability (Gemini) calls and of the store     *)
(***************************************************************************)
RECURSIVE SeqsUpTo(_, _)
\* the sequences over S of length at most n
SeqsUpTo(S, n) ==
    IF n = 0 THEN {<<>>}
    ELSE LET shorter == SeqsUpTo(S, n - 1)
         IN  shorter \cup {Append(q, x) : q \in shorter, x \in S}

RawIds == 1..MaxRaw

\* the four values of DuplicateResult.recommendation
Recommendations == {"MERGE", "UPDATE", "SEPARATE", "SKIP"}

\* what the reply's recommendation field may hold: a known value, nothing
\* ("") or some other text
JudgeRecommendations == Recommendations \cup {"", "IGNORE"}

\* similarityScore and confidence of a reply: missing, in range, out of
\* range
JudgeNumbers ==
    {[sim |-> Zero, conf |-> Zero],
     [sim |-> Rat(85, 100), conf |-> Rat(9, 10)],
     [sim |-> Rat(3, 2), conf |-> Rat(-1, 2)]}

\* the parsed JSON of a duplicate-judgment reply with numbers of N and
\* matchingArticleIds of M
JudgeRepliesOf(N, M) ==
    {[failed |-> FALSE, isDuplicate |-> d, similarityScore |-> n.sim,
      matchingArticleIds |-> m, recommendation |-> r, confidence |-> n.conf] :
        d \in BOOLEAN, n \in N, m \in M, r \in JudgeRecommendations}

\* the lists <<>>, <<1>>, <<1, 2>>, ...
PrefixMatches == {[i \in 1..n |-> i] : n \in 0..MaxMatch}

\* replies as the detector reads them
JudgeReplies == JudgeRepliesOf(JudgeNumbers, PrefixMatches)

\* lists of ids in ascending order: stored or not, the article's own id or
\* another's
AscendingMatches ==
    {m \in SeqsUpTo(RawIds, MaxMatch) :
        \A i \in 1..(Len(m) - 1) : m[i] < m[i + 1]}

\* replies as the pipeline reads them: only isDuplicate, recommendation
\* and matchingArticleIds are read after the verdict
PipelineReplies ==
    JudgeRepliesOf({[sim |-> Rat(85, 100), conf |-> Rat(9, 10)]},
                   AscendingMatches)

\* the parsed JSON of a categorization reply, or a failed call
CategorizeOutcomes ==
    {[failed |-> TRUE, mainCategory |-> ""],
     [failed |-> FALSE, mainCategory |-> " Politique "]}

\* the parsed JSON of a breaking-news reply, or a failed call
BreakingOutcomes ==
    {[failed |-> TRUE, isBreakingNews |-> FALSE, urgencyLevel |-> ""],
     [failed |-> FALSE, isBreakingNews |-> TRUE, urgencyLevel |-> "HIGH"],
     [failed |-> FALSE, isBreakingNews |-> FALSE, urgencyLevel |-> ""]}

\* "Flash info": a title the rewrite may give
FlashTitle == <<"F", "l", "a", "s", "h", " ", "i", "n", "f", "o">>

\* a reply of the rewrite without optimizedTitle
RewriteKeepsTitle == [failed |-> FALSE, optimizedTitle |-> <<>>]

\* what the call of rewriteArticle may answer: a failure, or a reply with
\* or without optimizedTitle
RewriteOutcomes ==
    {[failed |-> TRUE, optimizedTitle |-> <<>>],
     RewriteKeepsTitle,
     [failed |-> FALSE, optimizedTitle |-> FlashTitle]}

\* the environment of a run: what each call may answer; the store works
EnvAny ==
    [maxArticles |-> MaxRaw, maxClusters |-> MaxRaw,
     store |-> {"ok"},
     judge |-> PipelineReplies \cup {JudgeFailed},
     categorize |-> CategorizeOutcomes,
     ai |-> {"ok", "fail"},
     rewrite |-> RewriteOutcomes,
     breaking |-> BreakingOutcomes]

\* the replies that decide which branch a run takes; the other capabilities
\* answer
EnvRace ==
    [maxArticles |-> MaxArticles, maxClusters |-> MaxClusters,
     store |-> {"ok"},
     judge |-> {r \in PipelineReplies :
                   /\ r.recommendation \in {"MERGE", "SEPARATE"}
                   /\ r.isDuplicate = (r.recommendation = "MERGE")
                   /\ r.matchingArticleIds \in PrefixMatches
                   /\ (r.recommendation = "SEPARATE"
                         => r.matchingArticleIds = <<>>)} \cup {JudgeFailed},
     categorize |-> {[failed |-> FALSE, mainCategory |-> " Politique "]},
     ai |-> {"ok"},
     rewrite |-> {RewriteKeepsTitle},
     breaking |-> {[failed |-> FALSE, isBreakingNews |-> FALSE,
                    urgencyLevel |-> ""]}]

\* the duplicate-judgment capability is unavailable and the store works
EnvJudgeDown ==
    [maxArticles |-> MaxRaw, maxClusters |-> MaxRaw,
     store |-> {"ok"},
     judge |-> {JudgeFailed},
     categorize |-> CategorizeOutcomes,
     ai |-> {"ok", "fail"},
     rewrite |-> RewriteOutcomes,
     breaking |-> BreakingOutcomes]

\* every call on the store may fail; the judge's replies are those that
\* decide the branch a run takes, the other capabilities answer
EnvFaulty ==
    [maxArticles |-> MaxArticles, maxClusters |-> MaxClusters,
     store |-> {"ok", "error"},
     judge |-> {r \in PipelineReplies :
                   /\ r.recommendation \in {"MERGE", "SEPARATE", "SKIP"}
                   /\ r.isDuplicate = (r.recommendation # "SEPARATE")
                   /\ r.matchingArticleIds \in PrefixMatches
                   /\ (r.recommendation # "MERGE"
                         => r.matchingArticleIds = <<>>)} \cup {JudgeFailed},
     categorize |-> {[failed |-> FALSE, mainCategory |-> " Politique "]},
     ai |-> {"ok"},
     rewrite |-> {RewriteKeepsTitle},
     breaking |-> {[failed |-> FALSE, isBreakingNews |-> FALSE,
                    urgencyLevel |-> ""]}]

\* every judgment is MERGE against one article; the other capabilities
\* answer and the store works
EnvMerge ==
    [maxArticles |-> MaxArticles, maxClusters |-> MaxClusters,
     store |-> {"ok"},
     judge |-> {r \in PipelineReplies :
                   /\ r.isDuplicate
                   /\ r.recommendation = "MERGE"
                   /\ Len(r.matchingArticleIds) = 1},
     categorize |-> {[failed |-> FALSE, mainCategory |-> " Politique "]},
     ai |-> {"ok"},
     rewrite |-> {RewriteKeepsTitle},
     breaking |-> {[failed |-> FALSE, isBreakingNews |-> FALSE,
                    urgencyLevel |-> ""]}]

(***************************************************************************)
(* Categorization and breaking news                                        *)
(***************************************************************************)
\* Object.values(ArticleCategory)
ArticleCategory ==
    {"politique", "economie", "societe", "sport", "culture",
     "international", "technologie", "environnement"}

\* category.toLowerCase().trim() on the texts the replies carry
LowerTrimCategory(c) == IF c = " Politique " THEN "politique" ELSE c

\* the mapping table of normalizeCategory
CategoryMapping ==
    [c \in {"politique", "economie", "societe", "sport", "sports", "culture",
            "international", "technologie", "tech", "environnement"} |->
        CASE c = "sports" -> "sport"
          [] c = "tech" -> "technologie"
          [] OTHER -> c]

\* GeminiProcessor.normalizeCategory
normalizeCategory(category) ==
    LET normalized == LowerTrimCategory(category)
    IN  IF normalized \in ArticleCategory THEN normalized
        ELSE IF normalized \in DOMAIN CategoryMapping
        THEN CategoryMapping[normalized]
        ELSE "societe"

NoCategories ==
    [mainCategory |-> "", secondaryCategories |-> <<>>, confidence |-> Zero]

\* categorizeArticle letting a failed call through as an uncategorized
\* article: what the catch block would do if it returned no category
categorizeArticleNoDefault(reply) ==
    IF reply.failed \/ reply.mainCategory = ""
    THEN NoCategories
    ELSE [mainCategory |-> normalizeCategory(reply.mainCategory),
          secondaryCategories |-> <<>>,
          confidence |-> Rat(80, 100)]

\* GeminiProcessor.categorizeArticle; a reply without mainCategory makes
\* normalizeCategory throw inside the try
categorizeArticle(reply) ==
    IF reply.failed \/ reply.mainCategory = ""
    THEN [mainCategory |-> "societe", secondaryCategories |-> <<>>,
          confidence |-> Rat(50, 100)]
    ELSE [mainCategory |-> normalizeCategory(reply.mainCategory),
          secondaryCategories |-> <<>>,
          confidence |-> Rat(80, 100)]

\* urgentKeywords of detectBreakingNews ("deces" is written with accents)
urgentKeywords ==
    {<<"u", "r", "g", "e", "n", "t">>,
     <<"b", "r", "e", "a", "k", "i", "n", "g">>,
     <<"a", "l", "e", "r", "t", "e">>,
     <<"d", "e_acute", "c", "e_grave", "s">>,
     <<"m", "o", "r", "t">>,
     <<"d", "e_acute", "m", "i", "s", "s", "i", "o", "n">>,
     <<"e", "x", "c", "l", "u", "s", "i", "f">>}

NoBreaking == [isBreakingNews |-> FALSE, urgencyLevel |-> ""]

\* detectBreakingNews: urgentKeywords.some(kw => titleLower.includes(kw))
hasUrgentKeyword(title) ==
    LET titleLower == ToLower(title)
    IN  \E kw \in urgentKeywords : Includes(titleLower, kw)

\* detectBreakingNews without the keyword check: what it would do if
\* lines 417-424 were missing and every title went to the capability
detectBreakingNewsAlwaysAsks(title, reply) ==
    IF reply.failed
    THEN [isBreakingNews |-> FALSE, urgencyLevel |-> "NORMAL"]
    ELSE [isBreakingNews |-> reply.isBreakingNews,
          urgencyLevel |->
              IF reply.urgencyLevel = "" THEN "NORMAL"
              ELSE reply.urgencyLevel]

\* GeminiProcessor.detectBreakingNews
detectBreakingNews(title, reply) ==
    IF ~hasUrgentKeyword(title)
    THEN [isBreakingNews |-> FALSE, urgencyLevel |-> "NORMAL"]
    ELSE IF reply.failed
    THEN [isBreakingNews |-> FALSE, urgencyLevel |-> "NORMAL"]
    ELSE [isBreakingNews |-> reply.isBreakingNews,
          urgencyLevel |->
              IF reply.urgencyLevel = "" THEN "NORMAL"
              ELSE reply.urgencyLevel]

(***************************************************************************)
(* State                                                                   *)
(***************************************************************************)
\* concurrent invocations of processArticle (trigger, sweep, manual run)
Procs == {1, 2}

\* the runs of the scheduled scrapers and of the RSS fetcher
Scrapers == {1, 2}

\* a scraper run that is not inside saveRawArticle
NotSaving == [pc |-> "idle", item |-> 0]

\* no call of a retry loop is in progress; calls is the sequence of the
\* outcomes of the invocations of the operation so far
NoLoop ==
    [kind |-> "", pc |-> "idle", maxRetries |-> 0, attempt |-> 0,
     calls |-> <<>>, outcome |-> ""]

\* the source ids a CircuitBreaker is asked about
Sources == {"s", "t"}

\* failures.get(sourceId) is undefined; since counts the recordFailure
\* calls since the entry was last deleted, last is the last call on the
\* source
NoRecord == [count |-> 0, lastFailure |-> -1, since |-> 0, last |-> ""]

\* no sweep is running; handed is the set of the articles a sweep has
\* passed to processArticle
NoSweep == [queue |-> <<>>, current |-> 0, handed |-> {}]

VARIABLES
    detected,   \* the last call of detectDuplicates and what it returned
    now,        \* the clock, in hours
    raw,        \* collection raw-articles: document id = index
    articles,   \* collection articles: document id = index
    clusters,   \* collection article-clusters: document id = index
    run,        \* per invocation: position and local variables
    result,     \* per invocation: the ProcessingResult it returned
    triggered,  \* the runs of onArticleCreated: article, age, push sent
    scrape,     \* per scraper run: its position in saveRawArticle
    loop,       \* the call of withRetry / fetchWithRetry in progress
    failures,   \* CircuitBreaker.failures: per source, a record or none
    clock,      \* Date.now(), in minutes
    sweep       \* processUnprocessedArticles: the snapshot left to process

vars ==
    <<detected, now, raw, articles, clusters, run, result, triggered, scrape,
      loop, failures, clock, sweep>>

NoVerdict ==
    [isDuplicate |-> FALSE, similarityScore |-> Zero,
     matchingArticleIds |-> <<>>, recommendation |-> "", confidence |-> Zero]

\* an invocation that is not running
Idle ==
    [pc |-> "idle", arg |-> 0, verdict |-> NoVerdict,
     categories |-> NoCategories, breakingNews |-> NoBreaking,
     clusterId |-> 0, members |-> <<>>, articleId |-> 0, writes |-> {},
     log |-> <<>>, optimizedTitle |-> <<>>]

\* an entry of the record of a run: a step that has completed, and what
\* became of its external capability call: "ok", "failed", or "none" when
\* the step made no call
Step(name, call) == [step |-> name, call |-> call]

\* "ok" or "failed" for the outcome of a call
CallOf(failed) == IF failed THEN "failed" ELSE "ok"

NoResult ==
    [success |-> FALSE, articleId |-> 0, isDuplicate |-> FALSE,
     duplicateAction |-> "", categories |-> <<>>, isBreakingNews |-> FALSE,
     error |-> ""]

NoDetection ==
    [id |-> 0, judge |-> JudgeFailed, invoked |-> FALSE,
     verdict |-> NoVerdict]

Init ==
    /\ detected = NoDetection
    /\ now = 0
    /\ raw = <<>>
    /\ articles = <<>>
    /\ clusters = <<>>
    /\ run = [p \in Procs |-> Idle]
    /\ result = [p \in Procs |-> NoResult]
    /\ triggered = {}
    /\ scrape = [s \in Scrapers |-> NotSaving]
    /\ loop = NoLoop
    /\ failures = [s \in Sources |-> NoRecord]
    /\ clock = 0
    /\ sweep = NoSweep

\* the fields of the verdict that are still read after the dispatch
KeptVerdict(v) ==
    [NoVerdict EXCEPT
        !.isDuplicate = v.isDuplicate,
        !.recommendation = v.recommendation,
        !.matchingArticleIds =
            IF v.isDuplicate /\ v.recommendation \in {"MERGE", "UPDATE"}
            THEN v.matchingArticleIds ELSE <<>>]

\* the invocation returns r; its locals are dropped; the id it ran on, the
\* verdict it got and the collections it wrote stay on record
Return(p, r) ==
    /\ run' = [run EXCEPT ![p] = [Idle EXCEPT !.pc = "done",
                                              !.arg = run[p].arg,
                                              !.verdict =
                                                  KeptVerdict(run[p].verdict),
                                              !.writes = run[p].writes,
                                              !.log = run[p].log]]
    /\ result' = [result EXCEPT ![p] = r]

\* processArticle without its catch block turning the exception into a
\* failure result: the run ends as if it had succeeded
ThrowSwallowed(p, error) ==
    /\ Return(p, [NoResult EXCEPT !.success = TRUE])
    /\ UNCHANGED <<loop, failures, clock, sweep, scrape, triggered, detected, now, raw, articles, clusters>>

\* the catch block of processArticle
Throw(p, error) ==
    /\ Return(p, [NoResult EXCEPT !.error = error])
    /\ UNCHANGED <<loop, failures, clock, sweep, scrape, triggered, detected, now, raw, articles, clusters>>

Goto(p, label) == run' = [run EXCEPT ![p].pc = label]

(***************************************************************************)
(* Ingestion and time                                                      *)
(***************************************************************************)
\* BaseScraper.articleExists / RSSFetcher.articleExists
articleExists(rs, url, contentHash) ==
    \/ \E d \in 1..Len(rs) : rs[d].item = url
    \/ \E d \in 1..Len(rs) : rs[d].contentHash = contentHash

\* BaseScraper.saveRawArticle / RSSFetcher.saveRawArticle of item i
SaveRawArticle(i) ==
    LET contentHash == scraperContentHash(Items[i].content)
    IN  /\ Len(raw) < MaxRaw
        /\ ~articleExists(raw, i, contentHash)
        /\ raw' = Append(raw, [item |-> i, scrapedAt |-> now,
                               contentHash |-> contentHash,
                               processed |-> FALSE, skipped |-> FALSE])
        /\ UNCHANGED <<loop, failures, clock, sweep, scrape, triggered, detected, now, articles, clusters, run, result>>

Tick ==
    /\ now + HoursPerTick <= MaxNow
    /\ now' = now + HoursPerTick
    /\ UNCHANGED <<loop, failures, clock, sweep, scrape, triggered, detected, raw, articles, clusters, run, result>>

(***************************************************************************)
(* GeminiProcessor.processArticle, one action per awaited step             *)
(***************************************************************************)
\* onRawArticleCreated, processUnprocessedArticles or a manual run calls
\* processArticle(a)
StartRun(p, a) ==
    /\ run[p].pc = "idle"
    /\ run' = [run EXCEPT ![p] = [Idle EXCEPT !.pc = "getRawArticle",
                                              !.arg = a]]
    /\ UNCHANGED <<loop, failures, clock, sweep, scrape, triggered, detected, now, raw, articles, clusters, result>>

\* step 1 with the missing document taken for nothing to do: what
\* processArticle would do if lines 145-154 returned success
GetRawArticleAbsentOk(p, E) ==
    /\ run[p].pc = "getRawArticle"
    /\ \E s \in E.store :
          IF s = "error" THEN Throw(p, "store")
          ELSE IF run[p].arg > Len(raw) \/ raw[run[p].arg].processed
          THEN /\ Return(p, [NoResult EXCEPT !.success = TRUE])
               /\ UNCHANGED <<loop, failures, clock, sweep, scrape, triggered, detected, now, raw, articles, clusters>>
          ELSE /\ Goto(p, "detectDuplicates")
               /\ UNCHANGED <<loop, failures, clock, sweep, scrape, triggered, detected, now, raw, articles, clusters, result>>

\* step 1 without the already-processed guard: what processArticle would do
\* if lines 156-166 were missing
GetRawArticleUnguarded(p, E) ==
    /\ run[p].pc = "getRawArticle"
    /\ \E s \in E.store :
          IF s = "error" THEN Throw(p, "store")
          ELSE IF run[p].arg > Len(raw)
          THEN /\ Return(p, [NoResult EXCEPT
                                !.error = "Article brut non trouve"])
               /\ UNCHANGED <<loop, failures, clock, sweep, scrape, triggered, detected, now, raw, articles, clusters>>
          ELSE /\ Goto(p, "detectDuplicates")
               /\ UNCHANGED <<loop, failures, clock, sweep, scrape, triggered, detected, now, raw, articles, clusters, result>>

\* step 1 and the already-processed guard
GetRawArticle(p, E) ==
    /\ run[p].pc = "getRawArticle"
    /\ \E s \in E.store :
          IF s = "error" THEN Throw(p, "store")
          ELSE IF run[p].arg > Len(raw)
          THEN /\ Return(p, [NoResult EXCEPT
                                !.error = "Article brut non trouve"])
               /\ UNCHANGED <<loop, failures, clock, sweep, scrape, triggered, detected, now, raw, articles, clusters>>
          ELSE IF raw[run[p].arg].processed
          THEN /\ Return(p, [NoResult EXCEPT !.success = TRUE])
               /\ UNCHANGED <<loop, failures, clock, sweep, scrape, triggered, detected, now, raw, articles, clusters>>
          ELSE /\ Goto(p, "detectDuplicates")
               /\ UNCHANGED <<loop, failures, clock, sweep, scrape, triggered, detected, now, raw, articles, clusters, result>>

\* step 2: duplicateDetector.detectDuplicates(rawArticle)
DetectDuplicates(p, E) ==
    /\ run[p].pc = "detectDuplicates"
    /\ \E s \in E.store :
          IF s = "error" THEN Throw(p, "store")
          ELSE \E judge \in IF JudgeInvoked(raw, now, run[p].arg)
                              THEN E.judge ELSE {JudgeFailed} :
                  /\ run' = [run EXCEPT
                        ![p].pc = "dispatch",
                        ![p].verdict =
                            detectDuplicates(raw, now, run[p].arg, judge),
                        ![p].log =
                            Append(@, Step("detectDuplicates",
                                IF JudgeInvoked(raw, now, run[p].arg)
                                THEN CallOf(judge.failed) ELSE "none"))]
                  /\ UNCHANGED <<loop, failures, clock, sweep, scrape, triggered, detected, now, raw, articles, clusters, result>>

\* a dispatch that goes from the verdict straight to the processed flag
DispatchMarksFirst(p) ==
    /\ run[p].pc = "dispatch"
    /\ LET v == run[p].verdict
       IN  run' = [run EXCEPT
               ![p].pc = IF v.isDuplicate THEN "markSkipped"
                         ELSE "markAsProcessed",
               ![p].verdict = KeptVerdict(v)]
    /\ UNCHANGED <<loop, failures, clock, sweep, scrape, triggered, detected, now, raw, articles, clusters, result>>

\* if (duplicateResult.isDuplicate) handleDuplicate(...): its switch
Dispatch(p) ==
    /\ run[p].pc = "dispatch"
    /\ LET v == run[p].verdict
       IN  IF ~v.isDuplicate
           THEN /\ run' = [run EXCEPT ![p].pc = "categorizeArticle",
                                      ![p].verdict = KeptVerdict(v)]
                /\ UNCHANGED <<loop, failures, clock, sweep, scrape, triggered, detected, now, raw, articles, clusters, result>>
           ELSE IF v.recommendation = "SKIP"
           THEN /\ run' = [run EXCEPT ![p].pc = "markSkipped",
                                      ![p].verdict = KeptVerdict(v)]
                /\ UNCHANGED <<loop, failures, clock, sweep, scrape, triggered, detected, now, raw, articles, clusters, result>>
           ELSE IF v.recommendation \in {"MERGE", "UPDATE"}
           THEN /\ run' = [run EXCEPT ![p].pc = "categorizeDuplicate",
                                      ![p].verdict = KeptVerdict(v)]
                /\ UNCHANGED <<loop, failures, clock, sweep, scrape, triggered, detected, now, raw, articles, clusters, result>>
           ELSE /\ Return(p, [NoResult EXCEPT
                                 !.isDuplicate = TRUE,
                                 !.error = "Action de doublon non geree"])
                /\ UNCHANGED <<loop, failures, clock, sweep, scrape, triggered, detected, now, raw, articles, clusters>>

\* step 3, and the categorization of handleDuplicate
CategorizeArticle(p, E) ==
    /\ run[p].pc \in {"categorizeArticle", "categorizeDuplicate"}
    /\ \E reply \in E.categorize :
          run' = [run EXCEPT
              ![p].pc = IF run[p].pc = "categorizeArticle"
                        THEN "extractEntities" ELSE "findExistingCluster",
              ![p].categories = categorizeArticle(reply),
              ![p].log = Append(@, Step("categorizeArticle",
                                        CallOf(reply.failed)))]
    /\ UNCHANGED <<loop, failures, clock, sweep, scrape, triggered, detected, now, raw, articles, clusters, result>>

\* step 4: the entities are not read by anything modelled
ExtractEntities(p, E) ==
    /\ run[p].pc = "extractEntities"
    /\ \E reply \in E.ai :
          run' = [run EXCEPT
              ![p].pc = "rewriteArticle",
              ![p].log = Append(@, Step("extractEntities", "ok"))]
    /\ UNCHANGED <<loop, failures, clock, sweep, scrape, triggered, detected, now, raw, articles, clusters, result>>

\* rewriteArticle: parsed.optimizedTitle || article.title, and article.title
\* when the call fails
rewriteArticle(title, reply) ==
    IF reply.failed \/ reply.optimizedTitle = <<>>
    THEN title
    ELSE reply.optimizedTitle

\* step 5: of the rewritten texts the title is kept
RewriteArticle(p, E) ==
    /\ run[p].pc = "rewriteArticle"
    /\ \E reply \in E.rewrite :
          run' = [run EXCEPT
              ![p].pc = "detectBreakingNews",
              ![p].optimizedTitle =
                  rewriteArticle(TitleOf(raw[run[p].arg]), reply),
              ![p].log = Append(@, Step("rewriteArticle", "ok"))]
    /\ UNCHANGED <<loop, failures, clock, sweep, scrape, triggered, detected, now, raw, articles, clusters, result>>

\* step 6
DetectBreakingNews(p, E) ==
    /\ run[p].pc = "detectBreakingNews"
    /\ \E reply \in E.breaking :
          run' = [run EXCEPT
              ![p].pc = "saveProcessedArticle",
              ![p].breakingNews =
                  detectBreakingNews(TitleOf(raw[run[p].arg]), reply),
              ![p].log =
                  Append(@, Step("detectBreakingNews",
                      IF hasUrgentKeyword(TitleOf(raw[run[p].arg]))
                      THEN CallOf(reply.failed) ELSE "none"))]
    /\ UNCHANGED <<loop, failures, clock, sweep, scrape, triggered, detected, now, raw, articles, clusters, result>>

\* step 7: GeminiProcessor.saveProcessedArticle
SaveProcessedArticle(p, E) ==
    /\ run[p].pc = "saveProcessedArticle"
    /\ Len(articles) < E.maxArticles
    /\ \E s \in E.store :
          IF s = "error" THEN Throw(p, "store")
          ELSE /\ articles' = Append(articles,
                    [title |-> run[p].optimizedTitle,
                     sourceArticleIds |-> <<run[p].arg>>,
                     categories |-> <<run[p].categories.mainCategory>>
                                    \o run[p].categories.secondaryCategories,
                     isBreakingNews |-> run[p].breakingNews.isBreakingNews,
                     breakingNewsLevel |-> run[p].breakingNews.urgencyLevel,
                     isSynthesis |-> FALSE,
                     clusterId |-> 0,
                     articleCount |-> 0])
               /\ run' = [run EXCEPT
                     ![p].pc = "markAsProcessed",
                     ![p].articleId = Len(articles) + 1,
                     ![p].writes = @ \cup {"articles"},
                     ![p].log =
                         Append(@, Step("saveProcessedArticle", "none"))]
               /\ UNCHANGED <<loop, failures, clock, sweep, scrape, triggered, detected, now, raw, clusters, result>>

\* a markAsProcessed whose write lands while the run reports a failure
MarkAsProcessedThenFail(p, E) ==
    /\ run[p].pc \in {"markAsProcessed", "markSkipped", "markMerged"}
    /\ raw' = [raw EXCEPT ![run[p].arg].processed = TRUE]
    /\ Return(p, [NoResult EXCEPT !.error = "store"])
    /\ UNCHANGED <<loop, failures, clock, sweep, scrape, triggered, detected, now, articles, clusters>>

\* step 8 and the SKIP / MERGE ends of handleDuplicate:
\* GeminiProcessor.markAsProcessed, then the success result
MarkAsProcessed(p, E) ==
    /\ run[p].pc \in {"markAsProcessed", "markSkipped", "markMerged"}
    /\ \E s \in E.store :
          IF s = "error" THEN Throw(p, "store")
          ELSE /\ raw' = [raw EXCEPT
                     ![run[p].arg].processed = TRUE,
                     ![run[p].arg].skipped = (run[p].pc = "markSkipped")]
               /\ run' = [run EXCEPT ![p] =
                     [Idle EXCEPT
                         !.pc = "done",
                         !.arg = run[p].arg,
                         !.verdict = KeptVerdict(run[p].verdict),
                         !.writes = run[p].writes \cup {"raw-articles"},
                         !.log = Append(run[p].log,
                                        Step("markAsProcessed", "none"))]]
               /\ result' = [result EXCEPT ![p] =
                     CASE run[p].pc = "markSkipped" ->
                            [NoResult EXCEPT !.success = TRUE,
                                             !.isDuplicate = TRUE,
                                             !.duplicateAction = "SKIPPED"]
                       [] run[p].pc = "markMerged" ->
                            [NoResult EXCEPT
                                !.success = TRUE,
                                !.isDuplicate = TRUE,
                                !.duplicateAction = "MERGED",
                                !.categories =
                                    <<run[p].categories.mainCategory>>]
                       [] OTHER ->
                            [NoResult EXCEPT
                                !.success = TRUE,
                                !.articleId = run[p].articleId,
                                !.categories =
                                    <<run[p].categories.mainCategory>>
                                    \o run[p].categories.secondaryCategories,
                                !.isBreakingNews =
                                    run[p].breakingNews.isBreakingNews]]
               /\ UNCHANGED <<loop, failures, clock, sweep, scrape, triggered, detected, now, articles, clusters>>

(***************************************************************************)
(* ArticleSynthesizer: clusters and synthesis (handleDuplicate, MERGE and  *)
(* UPDATE)                                                                 *)
(***************************************************************************)
\* whether a stored document carries the field
HasField(doc, name) == name \in DOMAIN doc

RECURSIVE Dedupe(_)
\* [...new Set(xs)]: first occurrences, in order
Dedupe(xs) ==
    IF xs = <<>> THEN <<>>
    ELSE LET front == Dedupe(SubSeq(xs, 1, Len(xs) - 1))
             last == xs[Len(xs)]
         IN  IF last \in Range(front) THEN front ELSE Append(front, last)

\* the clusters the query of findExistingCluster matches:
\* where("articleIds", "array-contains-any", articleIds.slice(0, 10))
MatchingClusters(cs, articleIds) ==
    IF Len(articleIds) = 0 THEN {}
    ELSE {c \in 1..Len(cs) :
            Range(cs[c].articleIds)
                \cap Range(Slice(articleIds, ArrayContainsAnyLimit)) # {}}

\* ArticleSynthesizer.getClusterArticles: the members that resolve
getClusterArticles(cs, rs, clusterId) ==
    IF clusterId \notin 1..Len(cs) THEN <<>>
    ELSE SelectSeq(cs[clusterId].articleIds, LAMBDA d : d \in 1..Len(rs))

\* addToCluster reading the member list as
\* (existingCluster.articles || []): what line 101 would do if the missing
\* field were defaulted instead of throwing
FindExistingClusterDefaulted(p, E) ==
    /\ run[p].pc = "findExistingCluster"
    /\ \E s \in E.store :
          IF s = "error" THEN Throw(p, "store")
          ELSE LET found ==
                       MatchingClusters(clusters,
                                        run[p].verdict.matchingArticleIds)
               IN  IF found = {}
                   THEN /\ Goto(p, "createCluster")
                        /\ UNCHANGED <<loop, failures, clock, sweep, scrape, triggered, detected, now, raw, articles, clusters, result>>
                   ELSE \E c \in found :
                          /\ run' = [run EXCEPT
                                ![p].pc = "updateCluster",
                                ![p].clusterId = c,
                                ![p].members =
                                    Dedupe(Append(
                                        IF HasField(clusters[c], "articles")
                                        THEN clusters[c].articles ELSE <<>>,
                                        run[p].arg))]
                          /\ UNCHANGED <<loop, failures, clock, sweep, scrape, triggered, detected, now, raw, articles,
                                         clusters, result>>

\* addToCluster up to its write: findExistingCluster (limit(1) returns any
\* one matching document), then the member list read off the document
\* found, whose fields are those addToCluster and saveSynthesizedArticle
\* write; reading .articles.map of a document without that field throws
FindExistingCluster(p, E) ==
    /\ run[p].pc = "findExistingCluster"
    /\ \E s \in E.store :
          IF s = "error" THEN Throw(p, "store")
          ELSE LET found ==
                       MatchingClusters(clusters,
                                        run[p].verdict.matchingArticleIds)
               IN  IF found = {}
                   THEN /\ Goto(p, "createCluster")
                        /\ UNCHANGED <<loop, failures, clock, sweep, scrape, triggered, detected, now, raw, articles, clusters, result>>
                   ELSE \E c \in found :
                          IF HasField(clusters[c], "articles")
                          THEN /\ run' = [run EXCEPT
                                     ![p].pc = "updateCluster",
                                     ![p].clusterId = c,
                                     ![p].members =
                                         Dedupe(Append(clusters[c].articles,
                                                       run[p].arg))]
                               /\ UNCHANGED <<loop, failures, clock, sweep, scrape, triggered, detected, now, raw, articles,
                                              clusters, result>>
                          ELSE Throw(p, "TypeError")

\* addToCluster with its lookup and its add in one transaction: what the
\* write would do if it looked the candidates up again and gave up on
\* finding them clustered by then
WriteClusterAtomic(p, E) ==
    /\ run[p].pc \in {"updateCluster", "createCluster"}
    /\ \E s \in E.store :
          IF s = "error" THEN Throw(p, "store")
          ELSE IF run[p].pc = "updateCluster"
          THEN /\ clusters' = [clusters EXCEPT
                     ![run[p].clusterId].articleIds = run[p].members]
               /\ run' = [run EXCEPT
                     ![p].pc = "getClusterArticles",
                     ![p].members = <<>>,
                     ![p].writes = @ \cup {"article-clusters"},
                     ![p].log = Append(@, Step("addToCluster", "none"))]
               /\ UNCHANGED <<loop, failures, clock, sweep, scrape, triggered, detected, now, raw, articles, result>>
          ELSE IF MatchingClusters(clusters,
                                   run[p].verdict.matchingArticleIds) # {}
          THEN Throw(p, "aborted")
          ELSE /\ Len(clusters) < E.maxClusters
               /\ clusters' = Append(clusters,
                     [articleIds |-> <<run[p].arg>>
                                     \o run[p].verdict.matchingArticleIds,
                      primaryCategory |-> run[p].categories.mainCategory,
                      synthesizedArticleId |-> 0])
               /\ run' = [run EXCEPT
                     ![p].pc = "getClusterArticles",
                     ![p].clusterId = Len(clusters) + 1,
                     ![p].writes = @ \cup {"article-clusters"},
                     ![p].log = Append(@, Step("addToCluster", "none"))]
               /\ UNCHANGED <<loop, failures, clock, sweep, scrape, triggered, detected, now, raw, articles, result>>

\* the write of addToCluster: update of the cluster found, or add of a new
\* one
WriteCluster(p, E) ==
    /\ run[p].pc \in {"updateCluster", "createCluster"}
    /\ \E s \in E.store :
          IF s = "error" THEN Throw(p, "store")
          ELSE IF run[p].pc = "updateCluster"
          THEN /\ clusters' = [clusters EXCEPT
                     ![run[p].clusterId].articleIds = run[p].members]
               /\ run' = [run EXCEPT
                     ![p].pc = "getClusterArticles",
                     ![p].members = <<>>,
                     ![p].writes = @ \cup {"article-clusters"},
                     ![p].log = Append(@, Step("addToCluster", "none"))]
               /\ UNCHANGED <<loop, failures, clock, sweep, scrape, triggered, detected, now, raw, articles, result>>
          ELSE /\ Len(clusters) < E.maxClusters
               /\ clusters' = Append(clusters,
                     [articleIds |-> <<run[p].arg>>
                                     \o run[p].verdict.matchingArticleIds,
                      primaryCategory |-> run[p].categories.mainCategory,
                      synthesizedArticleId |-> 0])
               /\ run' = [run EXCEPT
                     ![p].pc = "getClusterArticles",
                     ![p].clusterId = Len(clusters) + 1,
                     ![p].writes = @ \cup {"article-clusters"},
                     ![p].log = Append(@, Step("addToCluster", "none"))]
               /\ UNCHANGED <<loop, failures, clock, sweep, scrape, triggered, detected, now, raw, articles, result>>

\* handleDuplicate: getClusterArticles(clusterId) and the threshold
GetClusterArticles(p, E) ==
    /\ run[p].pc = "getClusterArticles"
    /\ \E s \in E.store :
          IF s = "error" THEN Throw(p, "store")
          ELSE /\ run' = [run EXCEPT
                     ![p].pc = IF Len(getClusterArticles(clusters, raw,
                                                         run[p].clusterId))
                                  >= SynthesisThreshold
                               THEN "synthesizeCluster" ELSE "markMerged",
                     ![p].log = Append(@, Step("getClusterArticles", "none"))]
               /\ UNCHANGED <<loop, failures, clock, sweep, scrape, triggered, detected, now, raw, articles, clusters, result>>

\* synthesizeCluster without its catch block's null: what handleDuplicate
\* would do if a failed synthesis call still gave a synthesis to save
SynthesizeClusterAnyway(p, E) ==
    /\ run[p].pc = "synthesizeCluster"
    /\ \E s \in E.store :
          IF s = "error" THEN Throw(p, "store")
          ELSE \E reply \in E.ai :
                  /\ LET called ==
                             /\ GenAIConfigured
                             /\ Len(getClusterArticles(clusters, raw,
                                                       run[p].clusterId))
                                >= SynthesisMinimum
                     IN  run' = [run EXCEPT
                             ![p].pc = IF called
                                       THEN "saveSynthesizedArticle"
                                       ELSE "markMerged",
                             ![p].log =
                                 Append(@, Step("synthesizeCluster",
                                     IF called THEN CallOf(reply # "ok")
                                     ELSE "none"))]
                  /\ UNCHANGED <<loop, failures, clock, sweep, scrape, triggered, detected, now, raw, articles, clusters, result>>

\* ArticleSynthesizer.synthesizeCluster: null or a synthesis
SynthesizeCluster(p, E) ==
    /\ run[p].pc = "synthesizeCluster"
    /\ \E s \in E.store :
          IF s = "error" THEN Throw(p, "store")
          ELSE \E reply \in E.ai :
                  /\ LET called ==
                             /\ GenAIConfigured
                             /\ Len(getClusterArticles(clusters, raw,
                                                       run[p].clusterId))
                                >= SynthesisMinimum
                     IN  run' = [run EXCEPT
                             ![p].pc = IF called /\ reply = "ok"
                                       THEN "saveSynthesizedArticle"
                                       ELSE "markMerged",
                             ![p].log =
                                 Append(@, Step("synthesizeCluster",
                                     IF called THEN CallOf(reply # "ok")
                                     ELSE "none"))]
                  /\ UNCHANGED <<loop, failures, clock, sweep, scrape, triggered, detected, now, raw, articles, clusters, result>>

\* ArticleSynthesizer.saveSynthesizedArticle up to the add of the article
SaveSynthesizedArticle(p, E) ==
    /\ run[p].pc = "saveSynthesizedArticle"
    /\ Len(articles) < E.maxArticles
    /\ \E s \in E.store :
          IF s = "error" THEN Throw(p, "store")
          ELSE LET members ==
                       getClusterArticles(clusters, raw, run[p].clusterId)
               IN  IF Len(members) = 0
                   THEN /\ Goto(p, "markMerged")
                        /\ UNCHANGED <<loop, failures, clock, sweep, scrape, triggered, detected, now, raw, articles, clusters, result>>
                   ELSE /\ articles' = Append(articles,
                             [title |-> TitleOf(raw[members[1]]),
                              sourceArticleIds |-> members,
                              categories |->
                                  <<run[p].categories.mainCategory>>,
                              isBreakingNews |-> FALSE,
                              breakingNewsLevel |-> "",
                              isSynthesis |-> TRUE,
                              clusterId |-> run[p].clusterId,
                              articleCount |-> Len(members)])
                        /\ run' = [run EXCEPT
                              ![p].pc = "linkSynthesizedArticle",
                              ![p].articleId = Len(articles) + 1,
                              ![p].writes = @ \cup {"articles"}]
                        /\ UNCHANGED <<loop, failures, clock, sweep, scrape, triggered, detected, now, raw, clusters, result>>

\* saveSynthesizedArticle: the update of the cluster with the article's id
LinkSynthesizedArticle(p, E) ==
    /\ run[p].pc = "linkSynthesizedArticle"
    /\ \E s \in E.store :
          IF s = "error" THEN Throw(p, "store")
          ELSE /\ clusters' = [clusters EXCEPT
                     ![run[p].clusterId].synthesizedArticleId =
                         run[p].articleId]
               /\ run' = [run EXCEPT
                     ![p].pc = "markMerged",
                     ![p].articleId = 0,
                     ![p].writes = @ \cup {"article-clusters"},
                     ![p].log =
                         Append(@, Step("saveSynthesizedArticle", "none"))]
               /\ UNCHANGED <<loop, failures, clock, sweep, scrape, triggered, detected, now, raw, articles, result>>

\* the caller has read the result
Finish(p) ==
    /\ run[p].pc = "done"
    /\ run' = [run EXCEPT ![p] = Idle]
    /\ result' = [result EXCEPT ![p] = NoResult]
    /\ UNCHANGED <<loop, failures, clock, sweep, scrape, triggered, detected, now, raw, articles, clusters>>

(***************************************************************************)
(* Specifications                                                          *)
(***************************************************************************)
\* the platform ends invocation p before it returns (timeoutSeconds, an
\* instance shut down): its locals are lost, what it wrote stays
Crash(p) ==
    /\ run[p].pc \notin {"idle", "done"}
    /\ run' = [run EXCEPT ![p] = Idle]
    /\ UNCHANGED <<loop, failures, clock, sweep, scrape, triggered, detected, now, raw, articles, clusters, result>>

\* the next step of a running invocation p, synthesis apart
Continue(p, E) ==
    \/ GetRawArticle(p, E)
    \/ DetectDuplicates(p, E)
    \/ Dispatch(p)
    \/ CategorizeArticle(p, E)
    \/ ExtractEntities(p, E)
    \/ RewriteArticle(p, E)
    \/ DetectBreakingNews(p, E)
    \/ SaveProcessedArticle(p, E)
    \/ MarkAsProcessed(p, E)
    \/ FindExistingCluster(p, E)
    \/ WriteCluster(p, E)
    \/ GetClusterArticles(p, E)
    \/ Finish(p)

\* the steps of handleDuplicate behind the 3-member threshold
Synthesis(p, E) ==
    \/ SynthesizeCluster(p, E)
    \/ SaveSynthesizedArticle(p, E)
    \/ LinkSynthesizedArticle(p, E)

\* one step of invocation p in environment E
RunStep(p, E) ==
    \/ \E a \in RawIds : StartRun(p, a)
    \/ Continue(p, E)
    \/ Synthesis(p, E)

\* the scrapers store an item of the feed the pipeline runs on
Ingest == \E i \in 1..MaxFeed : SaveRawArticle(i)

\* the scrapers store any of the items
IngestAny == \E i \in ItemIds : SaveRawArticle(i)

\* a call of duplicateDetector.detectDuplicates on stored article a
CallDetectDuplicates(a, judge) ==
    /\ a \in 1..Len(raw)
    /\ detected' = [id |-> a, judge |-> judge,
                    invoked |-> JudgeInvoked(raw, now, a),
                    verdict |-> detectDuplicates(raw, now, a, judge)]
    /\ UNCHANGED <<loop, failures, clock, sweep, scrape, triggered, now, raw, articles, clusters, run, result>>

\* the caller has read the verdict
ReturnVerdict ==
    /\ detected # NoDetection
    /\ detected' = NoDetection
    /\ UNCHANGED <<loop, failures, clock, sweep, scrape, triggered, now, raw, articles, clusters, run, result>>

\* no call of the detector is pending
NoCall == detected = NoDetection

\* the detector alone: ingestion, time, and calls with any reply
NextDetect ==
    \/ NoCall /\ IngestAny
    \/ NoCall /\ Tick
    \/ NoCall /\ \E a \in RawIds, judge \in JudgeReplies \cup {JudgeFailed} :
                    CallDetectDuplicates(a, judge)
    \/ ReturnVerdict

SpecDetect == Init /\ [][NextDetect]_vars

\* no invocation is running
Quiet == \A p \in Procs : run[p].pc = "idle"

\* concurrent invocations of the trigger and the sweep
Next ==
    \/ Quiet /\ Ingest
    \/ \E p \in Procs : RunStep(p, EnvRace)

Spec == Init /\ [][Next]_vars

\* single-threaded: one operation at a time, any outcome of every call
NextSeq ==
    \/ Quiet /\ Ingest
    \/ RunStep(1, EnvAny)

SpecSeq == Init /\ [][NextSeq]_vars

\* processUnprocessedArticles (every 30 minutes) and the redelivered
\* creation trigger call processArticle(a) for an article that is stored
\* and not processed
SweepRun(a) ==
    /\ a \in 1..Len(raw)
    /\ ~raw[a].processed
    /\ StartRun(1, a)

\* single-threaded, every duplicate judgment fails, the store works.  The
\* fallback verdict names one id, so a new cluster has two members and the
\* steps behind the 3-member threshold are never enabled.
NextJudgeDown ==
    \/ Quiet /\ Ingest
    \/ \E a \in RawIds : StartRun(1, a)
    \/ Continue(1, EnvJudgeDown)

\* a started run goes on to its end, and an article that stays unprocessed
\* is picked up again and again
FairJudgeDown ==
    /\ WF_vars(Continue(1, EnvJudgeDown))
    /\ \A a \in RawIds : SF_vars(SweepRun(a))

SpecJudgeDown == Init /\ [][NextJudgeDown]_vars /\ FairJudgeDown

\* single-threaded, the store may fail at every call and an invocation may
\* be ended at any point; the trigger is redelivered and the sweep picks up
\* what stays unprocessed
NextRetry ==
    \/ Quiet /\ Ingest
    \/ RunStep(1, EnvFaulty)
    \/ Crash(1)

SpecRetry == Init /\ [][NextRetry]_vars

\* concurrent invocations whose articles are judged duplicates of one
\* other article each: a cluster then has two members, and the steps
\* behind the 3-member threshold are never enabled
NextMergeRace ==
    \/ Quiet /\ Ingest
    \/ \E p \in Procs :
          \/ \E a \in RawIds : StartRun(p, a)
          \/ Continue(p, EnvMerge)

SpecMergeRace == Init /\ [][NextMergeRace]_vars

(***************************************************************************)
(* Properties                                                              *)
(***************************************************************************)
Stored(a) == a \in 1..Len(raw)

Done(p) == run[p].pc = "done"

\* the ProcessedArticles made from raw article a alone
ArticlesOf(a) ==
    {i \in 1..Len(articles) :
        ~articles[i].isSynthesis /\ articles[i].sourceArticleIds = <<a>>}

\* the clusters raw article a is a member of
ClustersOf(a) == {c \in 1..Len(clusters) : a \in Range(clusters[c].articleIds)}

\* the text the detector hashes: normalised title plus the first 200
\* characters of the content
NormalizedKey(doc) ==
    normalizeText(TitleOf(doc) \o <<" ">> \o Slice(ContentOf(doc), HashPrefixLen))

\* C1: under every interleaving of concurrent processArticle runs on the
\* same raw article, at most one ProcessedArticle is created for it.
C1_AtMostOneArticle == \A a \in RawIds : Cardinality(ArticlesOf(a)) <= 1

\* C2: a processArticle invocation that finds its raw article already
\* processed returns success=true with no article id, writes nothing, and
\* leaves raw-articles, article-clusters and articles unchanged; this holds
\* for every invocation, any number of times.
C2_ProcessedIsNoOp ==
    [][\A p \in Procs :
          (/\ run[p].pc = "getRawArticle"
           /\ Stored(run[p].arg)
           /\ raw[run[p].arg].processed
           /\ run'[p] # run[p])
          => /\ run'[p].pc = "done"
             /\ run'[p].writes = {}
             /\ result'[p].success
             /\ result'[p].articleId = 0
             /\ result'[p].error = ""
             /\ raw' = raw
             /\ articles' = articles
             /\ clusters' = clusters]_vars

\* C2, reached: both invocations have returned the no-op success on a
\* processed raw article
C2_Witness ==
    \A p \in Procs :
        /\ Done(p)
        /\ Stored(run[p].arg)
        /\ raw[run[p].arg].processed
        /\ result[p].success
        /\ run[p].writes = {}

\* C3: a run whose verdict recommends SEPARATE, whatever isDuplicate says,
\* ends with success=true, the raw article processed and exactly one
\* ProcessedArticle made from it alone (the store works in SpecSeq).
C3_SeparateIsProcessed ==
    \A p \in Procs :
        (Done(p) /\ run[p].verdict.recommendation = "SEPARATE")
        => /\ result[p].success
           /\ raw[run[p].arg].processed
           /\ Cardinality(ArticlesOf(run[p].arg)) = 1

\* C4: a run whose verdict recommends MERGE or UPDATE ends with
\* success=true and the raw article processed, whether or not a cluster
\* existed (the store works in SpecSeq).
C4_MergeIsProcessed ==
    \A p \in Procs :
        (Done(p) /\ run[p].verdict.recommendation \in {"MERGE", "UPDATE"})
        => /\ result[p].success
           /\ raw[run[p].arg].processed

\* C5: addToCluster, when an existing cluster's membership intersects the
\* matching ids, goes on without error to update one such cluster with the
\* old members plus the new id.
C5_AddToExistingCluster ==
    [][\A p \in Procs :
          (/\ run[p].pc = "findExistingCluster"
           /\ MatchingClusters(clusters, run[p].verdict.matchingArticleIds)
                  # {}
           /\ run'[p] # run[p])
          => /\ run'[p].pc = "updateCluster"
             /\ run'[p].clusterId \in
                    MatchingClusters(clusters,
                                     run[p].verdict.matchingArticleIds)
             /\ Range(run'[p].members) =
                    Range(clusters[run'[p].clusterId].articleIds)
                        \cup {run[p].arg}]_vars

\* C6: when an earlier stored article within the 48h window has the same
\* normalised title plus content prefix as the article given to
\* detectDuplicates, the verdict is isDuplicate, SKIP, similarity 1.0,
\* confidence 0.99.
C6_IdenticalTextIsSkipped ==
    (/\ detected.id # 0
     /\ \E d \in 1..(detected.id - 1) :
           /\ NormalizedKey(raw[d]) = NormalizedKey(raw[detected.id])
           /\ InWindow(raw[d], now))
    => /\ detected.verdict.isDuplicate
       /\ detected.verdict.recommendation = "SKIP"
       /\ RatEq(detected.verdict.similarityScore, One)
       /\ RatEq(detected.verdict.confidence, Rat(99, 100))

\* C7: with every duplicate judgment failing, any other capability failing
\* or not, and the store working, a run on a stored raw article returns
\* success=true.
C7_CapabilityFailuresSucceed ==
    \A p \in Procs : (Done(p) /\ Stored(run[p].arg)) => result[p].success

\* C8: with the duplicate judgment unavailable on every call and the store
\* working, every stored unprocessed raw article is eventually processed
\* under repeated invocation.
C8_EventuallyProcessed ==
    \A a \in RawIds :
        (Stored(a) /\ ~raw[a].processed) ~> (Stored(a) /\ raw[a].processed)

\* C9: every verdict detectDuplicates returns has its recommendation among
\* SKIP, MERGE, UPDATE, SEPARATE.
C9_RecommendationClosed ==
    detected.id # 0 => detected.verdict.recommendation \in Recommendations

\* C10: in a single-threaded sequence of runs, every raw article id is a
\* member of at most one cluster.
C10_AtMostOneCluster == \A a \in RawIds : Cardinality(ClustersOf(a)) <= 1


\* the synthesized articles saved for cluster c
SynthesesOf(c) ==
    {n \in 1..Len(articles) :
        articles[n].isSynthesis /\ articles[n].clusterId = c}

\* the different raw articles among the members of cluster c
MembersOf(c) == Range(clusters[c].articleIds)

\* C11: a run goes on to the synthesis only from the attach that leaves its
\* cluster with exactly three different members and no synthesized article
\* yet, and no cluster ever has more than one synthesized article.
C11_SynthesisOncePerCluster ==
    [][/\ \A p \in Procs :
            /\ run[p].pc = "getClusterArticles"
            /\ run'[p].pc = "synthesizeCluster"
            => /\ Cardinality(MembersOf(run[p].clusterId)) = SynthesisThreshold
               /\ clusters[run[p].clusterId].synthesizedArticleId = 0
       /\ \A c \in 1..Len(clusters') : Cardinality(SynthesesOf(c)') <= 1]_vars

\* C12: a cluster whose synthesizedArticleId is set has at least three
\* members, that is three different raw articles.
C12_SynthesizedHasThreeMembers ==
    \A c \in 1..Len(clusters) :
        clusters[c].synthesizedArticleId # 0
            => Cardinality(MembersOf(c)) >= SynthesisThreshold

\* C13: when three raw articles are processed one after another and the
\* second and the third are each judged MERGE against the earlier ones, the
\* three end in one cluster with exactly one synthesized article, whose
\* articleCount is 3 and which lists 3 sourceArticleIds; and every
\* synthesized article has articleCount equal to the number of its
\* sourceArticleIds, which is at least 2.
C13_ThreeMergedGiveOneSynthesis ==
    /\ /\ Done(1)
       /\ run[1].arg = 3
       /\ run[1].verdict.isDuplicate
       /\ run[1].verdict.recommendation = "MERGE"
       /\ Range(run[1].verdict.matchingArticleIds) \in {{1}, {2}, {1, 2}}
       /\ raw[1].processed
       /\ raw[2].processed
       /\ \E c \in 1..Len(clusters) : clusters[c].articleIds = <<2, 1>>
       => /\ result[1].success
          /\ \E c \in 1..Len(clusters) :
                /\ MembersOf(c) = {1, 2, 3}
                /\ ClustersOf(1) \cup ClustersOf(2) \cup ClustersOf(3) = {c}
                /\ \E n \in 1..Len(articles) :
                      /\ SynthesesOf(c) = {n}
                      /\ articles[n].articleCount = 3
                      /\ Len(articles[n].sourceArticleIds) = 3
    /\ \A n \in 1..Len(articles) :
          articles[n].isSynthesis
              => /\ articles[n].articleCount = Len(articles[n].sourceArticleIds)
                 /\ articles[n].articleCount >= SynthesisMinimum

\* C14: in every execution, runs that fail on a store write or are ended
\* and invoked again included, at most one ProcessedArticle that is not a
\* synthesis references a given raw article.
C14_AtMostOneArticleAcrossRetries ==
    \A a \in RawIds :
        Cardinality({n \in 1..Len(articles) :
                        /\ ~articles[n].isSynthesis
                        /\ a \in Range(articles[n].sourceArticleIds)}) <= 1

\* C15: a MERGE or UPDATE run ended after its cluster attach and before the
\* processed flag leaves the raw article unprocessed, and when the article
\* is run again, addToCluster, unless the store fails, goes on with the
\* cluster the first run attached it to: no error, no second cluster, and
\* the article once in the membership.
C15_RerunAfterAttachIsIdempotent ==
    [][\A p \in Procs :
          /\ run[p].pc = "findExistingCluster"
          /\ \E c \in 1..Len(clusters) :
                Head(clusters[c].articleIds) = run[p].arg
          /\ run'[p].pc # "idle"
          /\ result'[p].error # "store"
          => /\ ~raw[run[p].arg].processed
             /\ run'[p].pc = "updateCluster"
             /\ run[p].arg \in MembersOf(run'[p].clusterId)
             /\ Len(SelectSeq(run'[p].members,
                              LAMBDA d : d = run[p].arg)) = 1]_vars

\* the positions of a run at which the next call writes to the store
StoreWrites ==
    {"saveProcessedArticle", "markAsProcessed", "markSkipped", "markMerged",
     "updateCluster", "createCluster", "saveSynthesizedArticle",
     "linkSynthesizedArticle"}

\* C16: when a store write of a run fails (the run ends at the write and
\* the store is as before), processArticle returns success=false with
\* error populated, and the raw article's processed flag is still false.
C16_FailedWriteIsFailure ==
    [][\A p \in Procs :
          /\ run[p].pc \in StoreWrites
          /\ run'[p].pc = "done"
          /\ <<raw, articles, clusters>>' = <<raw, articles, clusters>>
          => /\ ~result'[p].success
             /\ result'[p].error # ""
             /\ ~raw'[run[p].arg].processed]_vars

\* markAsProcessed has failed after saveProcessedArticle wrote the article
C16_Witness ==
    /\ Done(1)
    /\ result[1].error = "store"
    /\ ~result[1].success
    /\ run[1].writes = {"articles"}
    /\ ArticlesOf(run[1].arg) # {}
    /\ ~raw[run[1].arg].processed

\* C17: processArticle called with an id under which no raw article is
\* stored returns failure (success=false, error set) at its first step and
\* writes nothing: raw-articles, articles and article-clusters are as
\* before.
C17_MissingArticleIsFailure ==
    [][\A p \in Procs :
          /\ run[p].pc = "getRawArticle"
          /\ ~Stored(run[p].arg)
          /\ run'[p].pc \notin {"getRawArticle", "idle"}
          => /\ Done(p)'
             /\ ~result'[p].success
             /\ result'[p].error # ""
             /\ run'[p].writes = {}
             /\ <<raw, articles, clusters>>' = <<raw, articles, clusters>>]_vars

\* a run on an id that is not stored has returned "not found"
C17_Witness ==
    /\ Done(1)
    /\ ~Stored(run[1].arg)
    /\ result[1].error = "Article brut non trouve"
    /\ Len(raw) > 0

\* C18: a run whose verdict recommends SKIP ends with the raw article
\* marked processed=true and skipped=true, no ProcessedArticle made from
\* it, no write but that mark (no cluster touched), no categorization,
\* rewrite or breaking-news result, and the result success with the
\* duplicate flag and the action SKIPPED.
C18_SkipOnlyMarks ==
    \A p \in Procs :
        Done(p) /\ run[p].verdict.recommendation = "SKIP"
            => /\ result[p].success
               /\ result[p].isDuplicate
               /\ result[p].duplicateAction = "SKIPPED"
               /\ result[p].categories = <<>>
               /\ raw[run[p].arg].processed
               /\ raw[run[p].arg].skipped
               /\ ArticlesOf(run[p].arg) = {}
               /\ run[p].writes = {"raw-articles"}

\* the stored articles other than a that are inside the lookback window
RecentOthers(a) ==
    {d \in 1..Len(raw) : d # a /\ InWindow(raw[d], now)}

\* C19: when no other recent stored article carries the content hash of
\* the article and none has a title whose Jaccard score with the
\* article's title exceeds 0.5, detectDuplicates returns isDuplicate=false,
\* SEPARATE, confidence 0.95 and an empty matching list, and the
\* duplicate-judgment capability is not invoked.
C19_NoCandidateIsSeparate ==
    /\ detected # NoDetection
    /\ \A d \in RecentOthers(detected.id) :
          /\ raw[d].contentHash # ItemHash[raw[detected.id].item]
          /\ ~RatGT(TitleScore(raw, detected.id, d), Rat(1, 2))
    => /\ ~detected.verdict.isDuplicate
       /\ detected.verdict.recommendation = "SEPARATE"
       /\ detected.verdict.confidence = Rat(95, 100)
       /\ detected.verdict.matchingArticleIds = <<>>
       /\ ~detected.invoked

\* the detector has been called on an article whose title scores exactly
\* one half against a recent stored one, and whatever the judge would
\* have replied it was not asked
C19_Witness ==
    /\ detected # NoDetection
    /\ \E d \in RecentOthers(detected.id) :
          RatEq(TitleScore(raw, detected.id, d), Rat(1, 2))
    /\ \A d \in RecentOthers(detected.id) :
          /\ raw[d].contentHash # ItemHash[raw[detected.id].item]
          /\ ~RatGT(TitleScore(raw, detected.id, d), Rat(1, 2))
    /\ ~detected.judge.failed
    /\ detected.judge.isDuplicate
    /\ detected.verdict.confidence = Rat(95, 100)
    /\ ~detected.invoked

\* C20: when the duplicate-judgment call fails, aiDuplicateCheck returns
\* (it does not throw) a verdict of confidence 0.6 that is
\* {isDuplicate=true, MERGE} exactly when the greatest title Jaccard score
\* over the candidates exceeds 0.7 and {isDuplicate=false, SEPARATE, empty
\* matching list} otherwise.
C20_FallbackDecidesAtSevenTenths ==
    detected # NoDetection /\ detected.invoked /\ detected.judge.failed
        => /\ detected.verdict.confidence = Rat(60, 100)
           /\ IF \E d \in RecentOthers(detected.id) :
                    RatGT(TitleScore(raw, detected.id, d), Rat(7, 10))
              THEN /\ detected.verdict.isDuplicate
                   /\ detected.verdict.recommendation = "MERGE"
              ELSE /\ ~detected.verdict.isDuplicate
                   /\ detected.verdict.recommendation = "SEPARATE"
                   /\ detected.verdict.matchingArticleIds = <<>>

\* the judgment call has failed on an article whose best candidate scores
\* two thirds: above the candidate threshold, below the fallback's
C20_Witness ==
    /\ detected # NoDetection
    /\ detected.invoked
    /\ detected.judge.failed
    /\ \E d \in RecentOthers(detected.id) :
          RatEq(TitleScore(raw, detected.id, d), Rat(2, 3))
    /\ \A d \in RecentOthers(detected.id) :
          ~RatGT(TitleScore(raw, detected.id, d), Rat(7, 10))
    /\ detected.verdict.recommendation = "SEPARATE"
    /\ detected.verdict.confidence = Rat(60, 100)

\* the record of run p has the step with that outcome of its call
Logged(p, name, call) == Step(name, call) \in Range(run[p].log)

\* C21: when the synthesis capability errors or answers something
\* malformed, synthesizeCluster returns null (the run goes on to mark the
\* article), and from then to the end of the run no ProcessedArticle is
\* created and no cluster changes: synthesizedArticleId stays as it was.
C21_FailedSynthesisLeavesNoArticle ==
    [][\A p \in Procs :
          Logged(p, "synthesizeCluster", "failed")'
              => /\ run'[p].pc \in {"markMerged", "done"}
                 /\ articles' = articles
                 /\ clusters' = clusters
                 /\ "articles" \notin run'[p].writes]_vars

\* a run whose synthesis call failed has ended as MERGED, its cluster
\* without a synthesized article
C21_Witness ==
    /\ Done(1)
    /\ Logged(1, "synthesizeCluster", "failed")
    /\ result[1].success
    /\ result[1].duplicateAction = "MERGED"
    /\ \E c \in ClustersOf(run[1].arg) :
          /\ clusters[c].synthesizedArticleId = 0
          /\ SynthesesOf(c) = {}

C23_MembershipOnlyGrows ==
    [][\A c \in 1..Len(clusters) :
          /\ c \in 1..Len(clusters')
          /\ MembersOf(c) \subseteq MembersOf(c)'
          /\ Len(getClusterArticles(clusters, raw, c))
                <= Len(getClusterArticles(clusters', raw', c))]_vars

\* two attach calls have been made one after the other: the first made a
\* cluster, the second ran into it, and the cluster has its members
C23_Witness ==
    /\ Done(1)
    /\ Logged(1, "categorizeArticle", "ok")
    /\ run[1].verdict.recommendation = "MERGE"
    /\ ~Logged(1, "addToCluster", "none")
    /\ result[1].error = "TypeError"
    /\ \E c \in 1..Len(clusters) :
          /\ MembersOf(c) \cap Range(run[1].verdict.matchingArticleIds) # {}
          /\ Cardinality(MembersOf(c)) >= SynthesisMinimum

\* C24: the find-then-create of addToCluster is not atomic: a run that
\* found no cluster for its candidates creates a cluster of its own
\* whatever the clusters hold by the time of its write, so two concurrent
\* MERGE runs that looked up the same unclustered candidate each create a
\* cluster, and the two clusters share that candidate (the witness).
C24_CreateIgnoresLaterClusters ==
    [][\A p \in Procs :
          run[p].pc = "createCluster" /\ run'[p] # run[p]
              => /\ run'[p].pc = "getClusterArticles"
                 /\ Len(clusters') = Len(clusters) + 1
                 /\ clusters'[Len(clusters')].articleIds =
                        <<run[p].arg>> \o run[p].verdict.matchingArticleIds
                 /\ \A c \in 1..Len(clusters) : clusters'[c] = clusters[c]]_vars

\* two runs on two articles, each judged MERGE against the other, have
\* each created a cluster, the second while the first's cluster already
\* held both articles
C24_Witness ==
    /\ run[1].pc = "getClusterArticles"
    /\ run[2].pc = "getClusterArticles"
    /\ run[1].arg # run[2].arg
    /\ run[1].clusterId # run[2].clusterId
    /\ Head(clusters[run[1].clusterId].articleIds) = run[1].arg
    /\ Head(clusters[run[2].clusterId].articleIds) = run[2].arg
    /\ run[1].verdict.matchingArticleIds = <<run[2].arg>>
    /\ run[2].verdict.matchingArticleIds = <<run[1].arg>>
    /\ ClustersOf(run[1].arg) = {run[1].clusterId, run[2].clusterId}
    /\ ClustersOf(run[2].arg) = {run[1].clusterId, run[2].clusterId}

\* C25: when the categorization call throws or answers something
\* unparsable, categorizeArticle yields 'societe', no secondary category
\* and confidence 0.5, and a run on the novel path that ends without a
\* store error has persisted a ProcessedArticle with exactly that category
\* and reports success=true.
C25_FailedCategorizationIsSociete ==
    \A p \in Procs :
        Logged(p, "categorizeArticle", "failed")
            => /\ run[p].pc \notin {"done", "idle"}
                  => run[p].categories =
                        [mainCategory |-> "societe",
                         secondaryCategories |-> <<>>,
                         confidence |-> Rat(50, 100)]
               /\ Done(p) /\ ~run[p].verdict.isDuplicate
                  => /\ result[p].success
                     /\ result[p].categories = <<"societe">>
                     /\ result[p].articleId \in 1..Len(articles)
                     /\ articles[result[p].articleId].categories
                            = <<"societe">>
                     /\ articles[result[p].articleId].sourceArticleIds
                            = <<run[p].arg>>

\* a novel article whose categorization call failed has been persisted
C25_Witness ==
    /\ Done(1)
    /\ Logged(1, "categorizeArticle", "failed")
    /\ Logged(1, "saveProcessedArticle", "none")
    /\ result[1].success
    /\ articles[result[1].articleId].categories = <<"societe">>

\* C26: for a title that contains none of the fixed keywords,
\* detectBreakingNews makes no capability call and returns
\* isBreakingNews=false with urgency NORMAL; and a ProcessedArticle is
\* persisted with isBreakingNews=true only if the title of its raw article
\* contains a keyword and the run's scoring call answered.
C26_NoKeywordIsNotBreaking ==
    /\ \A p \in Procs :
          /\ run[p].pc \in {"saveProcessedArticle", "markAsProcessed"}
          /\ ~hasUrgentKeyword(TitleOf(raw[run[p].arg]))
          => /\ Logged(p, "detectBreakingNews", "none")
             /\ run[p].breakingNews =
                   [isBreakingNews |-> FALSE, urgencyLevel |-> "NORMAL"]
    /\ \A n \in 1..Len(articles) :
          articles[n].isBreakingNews
              => /\ ~articles[n].isSynthesis
                 /\ hasUrgentKeyword(
                        TitleOf(raw[articles[n].sourceArticleIds[1]]))
    /\ \A p \in Procs :
          /\ run[p].pc = "markAsProcessed"
          /\ articles[run[p].articleId].isBreakingNews
          => Logged(p, "detectBreakingNews", "ok")

\* both cases have happened: an article without keyword persisted as not
\* breaking without a call, and one with a keyword persisted as breaking
C26_Witness ==
    /\ run[1].pc = "markAsProcessed"
    /\ Logged(1, "detectBreakingNews", "ok")
    /\ articles[run[1].articleId].isBreakingNews
    /\ \E n \in 1..Len(articles) :
          /\ ~articles[n].isBreakingNews
          /\ articles[n].breakingNewsLevel = "NORMAL"
          /\ ~hasUrgentKeyword(TitleOf(raw[articles[n].sourceArticleIds[1]]))

(***************************************************************************)
(* The creation trigger of the articles collection                         *)
(***************************************************************************)
\* breakingKeywords of onArticleCreated
breakingKeywords ==
    urgentKeywords \cup
    {<<"p", "r", "e_acute", "s", "i", "d", "e", "n", "t">>,
     <<"m", "i", "n", "i", "s", "t", "r", "e">>,
     <<"g", "o", "u", "v", "e", "r", "n", "e", "m", "e", "n", "t">>,
     <<"e_acute", "l", "e", "c", "t", "i", "o", "n">>,
     <<"f", "l", "a", "s", "h">>,
     <<"d", "e", "r", "n", "i", "e_grave", "r", "e", " ",
       "h", "e", "u", "r", "e">>}

\* onArticleCreated: breakingKeywords.some(kw => titleLower.includes(kw))
isBreaking(title) ==
    LET titleLower == ToLower(title)
    IN  \E kw \in breakingKeywords : Includes(titleLower, kw)

\* onArticleCreated for the article n, once per article; recent is
\* ageMinutes < 30, the age of publishedAt when the trigger runs; sent is
\* whether notificationService.sendBreakingNews was called
OnArticleCreated(n) ==
    /\ n \in 1..Len(articles)
    /\ \A t \in triggered : t.articleId # n
    /\ \E recent \in BOOLEAN :
          triggered' = triggered \cup
              {[articleId |-> n, recent |-> recent,
                sent |-> recent /\ isBreaking(articles[n].title)]}
    /\ UNCHANGED <<loop, failures, clock, sweep, scrape, detected, now, raw, articles, clusters, run, result>>

\* the judge's replies that decide the branch a run takes; the rewrite and
\* the breaking-news scoring answer anything, the store works
EnvNotify ==
    [maxArticles |-> MaxArticles, maxClusters |-> MaxClusters,
     store |-> {"ok"},
     judge |-> {r \in PipelineReplies :
                   /\ r.recommendation \in {"MERGE", "SEPARATE", "SKIP"}
                   /\ r.isDuplicate = (r.recommendation # "SEPARATE")
                   /\ r.matchingArticleIds \in PrefixMatches
                   /\ (r.recommendation # "MERGE"
                         => r.matchingArticleIds = <<>>)} \cup {JudgeFailed},
     categorize |-> {[failed |-> FALSE, mainCategory |-> " Politique "]},
     ai |-> {"ok"},
     rewrite |-> RewriteOutcomes,
     breaking |-> BreakingOutcomes]

\* single-threaded processing, and the creation trigger of the articles
NextNotify ==
    \/ Quiet /\ Ingest
    \/ RunStep(1, EnvNotify)
    \/ \E n \in 1..MaxArticles : OnArticleCreated(n)

SpecNotify == Init /\ [][NextNotify]_vars

\* C27: a breaking-news push notification is sent for a created article
\* only if the article was persisted with isBreakingNews true and its
\* publishedAt is recent
C27_PushOnlyForBreakingNews ==
    \A t \in triggered :
        t.sent => /\ articles[t.articleId].isBreakingNews
                  /\ t.recent

\* the steps of processArticle for an article that is no duplicate, in the
\* order of the code
NovelSteps ==
    <<"detectDuplicates", "categorizeArticle", "extractEntities",
      "rewriteArticle", "detectBreakingNews", "saveProcessedArticle",
      "markAsProcessed">>

\* the names of the steps run p has completed, in order
StepNames(p) == [i \in 1..Len(run[p].log) |-> run[p].log[i].step]

IsPrefixOf(s, t) ==
    /\ Len(s) <= Len(t)
    /\ \A i \in 1..Len(s) : s[i] = t[i]

\* C28: a run whose article is no duplicate completes duplicate detection,
\* categorization, entity extraction, rewrite, breaking-news scoring, the
\* write of the ProcessedArticle and the write of the processed flag in
\* that order, all of them when it succeeds (a run that finds its article
\* processed already returns before the first of them); and the step that sets
\* processed on such an article finds its ProcessedArticle stored
C28_NovelStepsInOrder ==
    [][/\ \A p \in Procs :
            ~run'[p].verdict.isDuplicate =>
                /\ IsPrefixOf(StepNames(p)', NovelSteps)
                /\ (/\ run'[p].pc = "done"
                    /\ result'[p].success
                    /\ StepNames(p)' # <<>>)
                      => StepNames(p)' = NovelSteps
       /\ \A p \in Procs :
            (/\ run[p].pc = "markAsProcessed"
             /\ ~raw[run[p].arg].processed
             /\ raw'[run[p].arg].processed)
                => ArticlesOf(run[p].arg) # {}]_vars

C28_Witness ==
    \E p \in Procs :
        /\ Done(p)
        /\ result[p].success
        /\ ~run[p].verdict.isDuplicate
        /\ StepNames(p) = NovelSteps
        /\ raw[run[p].arg].processed
        /\ ~raw[run[p].arg].skipped
        /\ ArticlesOf(run[p].arg) # {}

\* aiDuplicateCheck: candidates.slice(0, 5)
JudgeCandidateLimit == 5

\* aiDuplicateCheck: the candidates written into the judge's prompt
promptCandidates(candidates) == Slice(candidates, JudgeCandidateLimit)

\* C29: titleSimilarityCheck returns exactly the other stored articles of
\* the lookback window whose title scores above 0.5 against the new
\* article's, ordered by score descending, and the candidates handed to
\* the judge are the highest-scoring of them
C29_CandidatesByScoreDescending ==
    (/\ detected # NoDetection
     /\ ~quickHashCheck(raw, now, detected.id).isDuplicate) =>
        LET id == detected.id
            candidates == titleSimilarityCheck(raw, now, id)
            prompt == promptCandidates(candidates)
        IN  /\ Range(candidates) =
                   {d \in RecentOthers(id) :
                       RatGT(TitleScore(raw, id, d), Rat(1, 2))}
            /\ \A i, j \in 1..Len(candidates) :
                   i < j => ~RatGT(TitleScore(raw, id, candidates[j]),
                                   TitleScore(raw, id, candidates[i]))
            /\ \A d \in Range(prompt) :
                   \A e \in Range(candidates) \ Range(prompt) :
                       ~RatGT(TitleScore(raw, id, e), TitleScore(raw, id, d))

(***************************************************************************)
(* saveRawArticle, one action per awaited call                             *)
(***************************************************************************)
\* scraper run s calls saveRawArticle on item i of the feed
BeginSave(s, i) ==
    /\ scrape[s].pc = "idle"
    /\ scrape' = [scrape EXCEPT ![s] = [pc |-> "urlQuery", item |-> i]]
    /\ UNCHANGED <<loop, failures, clock, sweep, triggered, detected, now, raw, articles, clusters, run, result>>

\* articleExists: where("url", "==", url).limit(1); true ends
\* saveRawArticle with null
UrlQuery(s) ==
    /\ scrape[s].pc = "urlQuery"
    /\ scrape' = [scrape EXCEPT ![s] =
          IF \E d \in 1..Len(raw) : raw[d].item = scrape[s].item
          THEN NotSaving
          ELSE [@ EXCEPT !.pc = "hashQuery"]]
    /\ UNCHANGED <<loop, failures, clock, sweep, triggered, detected, now, raw, articles, clusters, run, result>>

\* articleExists: where("contentHash", "==", contentHash).limit(1); true
\* ends saveRawArticle with null
HashQuery(s) ==
    /\ scrape[s].pc = "hashQuery"
    /\ LET contentHash == scraperContentHash(Items[scrape[s].item].content)
       IN  scrape' = [scrape EXCEPT ![s] =
              IF \E d \in 1..Len(raw) : raw[d].contentHash = contentHash
              THEN NotSaving
              ELSE [@ EXCEPT !.pc = "add"]]
    /\ UNCHANGED <<loop, failures, clock, sweep, triggered, detected, now, raw, articles, clusters, run, result>>

\* saveRawArticle: collection("raw-articles").add(rawArticle)
AddRawArticle(s) ==
    /\ scrape[s].pc = "add"
    /\ Len(raw) < MaxRaw
    /\ raw' = Append(raw,
          [item |-> scrape[s].item, scrapedAt |-> now,
           contentHash |-> scraperContentHash(Items[scrape[s].item].content),
           processed |-> FALSE, skipped |-> FALSE])
    /\ scrape' = [scrape EXCEPT ![s] = NotSaving]
    /\ UNCHANGED <<loop, failures, clock, sweep, triggered, detected, now, articles, clusters, run, result>>

\* overlapping runs of the scheduled scrapers and the RSS fetcher
NextScrape ==
    \E s \in Scrapers :
        \/ \E i \in ItemIds : BeginSave(s, i)
        \/ UrlQuery(s)
        \/ HashQuery(s)
        \/ AddRawArticle(s)

SpecScrape == Init /\ [][NextScrape]_vars

\* C30: saveRawArticle adds a document only when no stored raw article has
\* the same URL or content hash, so no two stored raw articles share a
\* URL, whatever the interleaving of the scraper and RSS-fetcher runs
C30_NoTwoRawArticlesShareUrl ==
    \A d, e \in 1..Len(raw) : d # e => raw[d].item # raw[e].item

(***************************************************************************)
(* withRetry and BaseScraper.fetchWithRetry                                *)
(***************************************************************************)
\* the largest maxRetries / retries a loop is called with
MaxRetriesArg == 3

\* DEFAULT_OPTIONS.noRetryStatusCodes
noRetryStatusCodes == {400, 401, 403, 404, 405}

\* what one invocation of the operation may do: succeed, or fail with the
\* status of the response (0: the error carries no response)
InvocationOutcomes ==
    {[ok |-> TRUE, status |-> 0]} \cup
    {[ok |-> FALSE, status |-> st] : st \in {0, 400, 401, 403, 404, 405, 500}}

\* a loop that retries after every failure
noRetryNever(kind, status) == FALSE

\* whether a failure with this status ends the loop at once:
\* withRetry: statusCode && opts.noRetryStatusCodes?.includes(statusCode);
\* fetchWithRetry: status === 404 || status === 403
noRetry(kind, status) ==
    IF kind = "withRetry"
    THEN status # 0 /\ status \in noRetryStatusCodes
    ELSE status = 404 \/ status = 403

\* a call of withRetry(fn, {maxRetries: n}) or fetchWithRetry(url, n): the
\* loop starts at attempt 1 and is not entered when n < 1
LoopCall(kind, n) ==
    /\ loop.pc = "idle"
    /\ loop' = IF 1 <= n
               THEN [NoLoop EXCEPT !.kind = kind, !.pc = "invoke",
                                   !.maxRetries = n, !.attempt = 1]
               ELSE [NoLoop EXCEPT !.kind = kind, !.pc = "done",
                                   !.maxRetries = n, !.attempt = 1,
                                   !.outcome = "thrown"]
    /\ UNCHANGED <<failures, clock, sweep, scrape, triggered, detected, now, raw, articles, clusters, run, result>>

\* one pass of the loop body: the invocation and, when it fails, the catch
\* block up to the sleep
LoopInvoke(o) ==
    /\ loop.pc = "invoke"
    /\ loop' = [loop EXCEPT
          !.calls = Append(@, o),
          !.pc = IF o.ok \/ noRetry(loop.kind, o.status)
                         \/ loop.attempt = loop.maxRetries
                 THEN "done" ELSE "sleep",
          !.outcome = IF o.ok THEN "returned"
                      ELSE IF noRetry(loop.kind, o.status)
                              \/ loop.attempt = loop.maxRetries
                      THEN "thrown" ELSE ""]
    /\ UNCHANGED <<failures, clock, sweep, scrape, triggered, detected, now, raw, articles, clusters, run, result>>

\* the sleep is over: attempt++ and the test of the loop
LoopSleep ==
    /\ loop.pc = "sleep"
    /\ loop' = [loop EXCEPT
          !.attempt = @ + 1,
          !.pc = IF loop.attempt + 1 <= loop.maxRetries
                 THEN "invoke" ELSE "done",
          !.outcome = IF loop.attempt + 1 <= loop.maxRetries
                      THEN "" ELSE "thrown"]
    /\ UNCHANGED <<failures, clock, sweep, scrape, triggered, detected, now, raw, articles, clusters, run, result>>

\* the caller has the value or the error
LoopReturn ==
    /\ loop.pc = "done"
    /\ loop' = NoLoop
    /\ UNCHANGED <<failures, clock, sweep, scrape, triggered, detected, now, raw, articles, clusters, run, result>>

NextLoop ==
    \/ \E kind \in {"withRetry", "fetchWithRetry"}, n \in 0..MaxRetriesArg :
          LoopCall(kind, n)
    \/ \E o \in InvocationOutcomes : LoopInvoke(o)
    \/ LoopSleep
    \/ LoopReturn

SpecLoop == Init /\ [][NextLoop]_vars

\* C31: a retry loop invokes the operation at most maxRetries times; every
\* invocation before the last one failed with a status other than
\* 400/401/403/404/405 (withRetry) or 403/404 (fetchWithRetry), so a
\* success or such a status is followed by no invocation; the loop returns
\* exactly when its last invocation succeeded, and it throws only after a
\* failure with such a status or the failure of the last allowed attempt
C31_RetryLoopsAreBounded ==
    LET n == Len(loop.calls)
        Final(o) ==
            IF loop.kind = "withRetry"
            THEN o.status \in {400, 401, 403, 404, 405}
            ELSE o.status \in {403, 404}
        Retryable(o) == ~o.ok /\ ~Final(o)
    IN  /\ n <= Max(loop.maxRetries, 0)
        /\ \A i \in 1..(n - 1) : Retryable(loop.calls[i])
        /\ (n > 0 /\ ~Retryable(loop.calls[n])) => loop.pc = "done"
        /\ loop.outcome = "returned" <=> (n > 0 /\ loop.calls[n].ok)
        /\ loop.outcome = "thrown" =>
              /\ loop.pc = "done"
              /\ \/ n > 0 /\ ~loop.calls[n].ok /\ Final(loop.calls[n])
                 \/ n = loop.maxRetries /\ (n > 0 => ~loop.calls[n].ok)
        /\ loop.pc = "done" => loop.outcome \in {"returned", "thrown"}

C31_Witness ==
    /\ loop.kind = "fetchWithRetry"
    /\ loop.pc = "done"
    /\ loop.outcome = "thrown"
    /\ loop.maxRetries = MaxRetriesArg
    /\ loop.calls = <<[ok |-> FALSE, status |-> 400],
                      [ok |-> FALSE, status |-> 404]>>

(***************************************************************************)
(* CircuitBreaker                                                          *)
(***************************************************************************)
\* constructor(threshold = 5, resetMinutes = 30)
Threshold == 5
ResetMinutes == 30

\* the clock runs to MaxClock minutes in steps of MinutesPerTick, and a
\* source collects at most MaxFailures failures
MaxClock == 60
MinutesPerTick == 10
MaxFailures == 6

\* failures.has(sourceId)
HasRecord(s) == failures[s].count > 0

\* Date.now() - record.lastFailure.getTime() > this.resetMs
Expired(s) == clock - failures[s].lastFailure > ResetMinutes

\* what isOpen(sourceId) returns in the current state
isOpen(s) ==
    /\ HasRecord(s)
    /\ ~Expired(s)
    /\ failures[s].count >= Threshold

\* a call of isOpen(s): an expired entry is deleted
IsOpen(s) ==
    /\ failures' = [failures EXCEPT ![s] =
          IF HasRecord(s) /\ Expired(s)
          THEN [NoRecord EXCEPT !.last = "isOpen"]
          ELSE [@ EXCEPT !.last = "isOpen"]]
    /\ UNCHANGED <<loop, clock, sweep, scrape, triggered, detected, now, raw, articles, clusters, run, result>>

\* recordFailure(s)
RecordFailure(s) ==
    /\ failures[s].since < MaxFailures
    /\ failures' = [failures EXCEPT ![s] =
          [count |-> @.count + 1, lastFailure |-> clock,
           since |-> @.since + 1, last |-> "recordFailure"]]
    /\ UNCHANGED <<loop, clock, sweep, scrape, triggered, detected, now, raw, articles, clusters, run, result>>

\* a recordSuccess that keeps the entry
RecordSuccessKeeps(s) ==
    /\ failures' = [failures EXCEPT ![s].last = "recordSuccess"]
    /\ UNCHANGED <<loop, clock, sweep, scrape, triggered, detected, now, raw, articles, clusters, run, result>>

\* recordSuccess(s): failures.delete(sourceId)
RecordSuccess(s) ==
    /\ failures' = [failures EXCEPT ![s] =
          [NoRecord EXCEPT !.last = "recordSuccess"]]
    /\ UNCHANGED <<loop, clock, sweep, scrape, triggered, detected, now, raw, articles, clusters, run, result>>

\* time passes
ClockTick ==
    /\ clock + MinutesPerTick <= MaxClock
    /\ clock' = clock + MinutesPerTick
    /\ UNCHANGED <<loop, failures, sweep, scrape, triggered, detected, now, raw, articles, clusters, run, result>>

NextBreaker ==
    \/ \E s \in Sources : IsOpen(s)
    \/ \E s \in Sources : RecordFailure(s)
    \/ \E s \in Sources : RecordSuccess(s)
    \/ ClockTick

SpecBreaker == Init /\ [][NextBreaker]_vars

\* C32: isOpen(s) is true only if at least threshold recordFailure(s) calls
\* occurred since the entry of s was last deleted (by recordSuccess(s) or
\* by the expiry isOpen(s) performs); after recordSuccess(s) isOpen(s) is
\* false; and a call on s leaves isOpen(t) as it was for every other t
C32_BreakerPerSource ==
    [][\A s \in Sources :
          /\ isOpen(s)' => failures'[s].since >= Threshold
          /\ failures'[s].last = "recordSuccess" => ~isOpen(s)'
          /\ failures'[s] # failures[s] =>
                \A t \in Sources \ {s} : isOpen(t)' = isOpen(t)]_vars

C32_Witness ==
    /\ isOpen("t")
    /\ failures["s"].last = "recordSuccess"
    /\ failures["s"].lastFailure = -1
    /\ clock > 0

\* C40: with threshold > 1, a recordFailure(s) that comes more than resetMs
\* after the previous failure of s does not make isOpen(s) true
C40_StaleFailuresDoNotCount ==
    [][\A s \in Sources :
          (/\ Threshold > 1
           /\ HasRecord(s)
           /\ Expired(s)
           /\ failures'[s].last = "recordFailure"
           /\ failures'[s].since = failures[s].since + 1)
              => ~isOpen(s)']_vars

\* C33: when a run of processArticle on a stored raw article returns, with
\* no other run on that article, its result has success=true if and only
\* if the article's processed flag is true
C33_SuccessIffProcessed ==
    \A p \in Procs :
        (Done(p) /\ run[p].arg \in 1..Len(raw))
            => (result[p].success <=> raw[run[p].arg].processed)

\* C33, amended: a run that returns success=true leaves the processed flag
\* true, and the flag of the article changes only in the step in which
\* its run returns success=true: a run that returns success=false leaves
\* the flag as it found it, true if the article was processed before
C33_SuccessSetsFlagFailureKeepsIt ==
    [][\A p \in Procs :
          LET a == run[p].arg
          IN  (run[p].pc # "idle" /\ a \in 1..Len(raw)) =>
                /\ (run[p].pc # "done" /\ run'[p].pc = "done"
                      /\ result'[p].success) => raw'[a].processed
                /\ raw'[a].processed # raw[a].processed =>
                      /\ run'[p].pc = "done"
                      /\ result'[p].success
                      /\ raw'[a].processed]_vars

C33_Witness ==
    \E p \in Procs :
        /\ Done(p)
        /\ run[p].arg \in 1..Len(raw)
        /\ ~result[p].success
        /\ result[p].error = "store"
        /\ raw[run[p].arg].processed

\* C34: every stored cluster has at least two different member ids and no
\* id twice in its member list, whatever matching list the verdict carried
C34_ClustersHaveTwoDistinctMembers ==
    \A c \in 1..Len(clusters) :
        LET ids == clusters[c].articleIds
        IN  /\ Cardinality(Range(ids)) >= 2
            /\ \A i, j \in 1..Len(ids) : i # j => ids[i] # ids[j]

\* C35: the matchingArticleIds of every verdict are ids of stored raw
\* articles that were hash matches or title-similarity candidates of the
\* new article, never the new article's own id; and every member id of
\* every cluster is the id of a stored raw article
C35_MatchesAreStoredCandidates ==
    /\ \A p \in Procs :
          run[p].pc = "dispatch" =>
              LET a == run[p].arg
              IN  Range(run[p].verdict.matchingArticleIds) \subseteq
                      ((Range(quickHashCheck(raw, now, a).matchingIds)
                          \cup Range(titleSimilarityCheck(raw, now, a)))
                       \ {a})
    /\ \A c \in 1..Len(clusters) :
          Range(clusters[c].articleIds) \subseteq 1..Len(raw)

\* C36: when the judgment call has failed and the fallback returns MERGE,
\* the one id of its matchingArticleIds is that of a candidate whose title
\* scores above 0.7 against the new article's
C36_FallbackMatchIsTheBestCandidate ==
    (/\ detected # NoDetection
     /\ detected.invoked
     /\ detected.judge.failed
     /\ detected.verdict.recommendation = "MERGE")
        => /\ Len(detected.verdict.matchingArticleIds) = 1
           /\ RatGT(TitleScore(raw, detected.id,
                               detected.verdict.matchingArticleIds[1]),
                    Rat(7, 10))

\* the scrapers store an item of a feed whose items share no content hash
IngestDistinct == \E i \in {1, 2, 5} : SaveRawArticle(i)

\* concurrent MERGE runs on the articles of that feed
NextAttachRace ==
    \/ Quiet /\ IngestDistinct
    \/ \E p \in Procs :
          \/ \E a \in RawIds : StartRun(p, a)
          \/ Continue(p, EnvMerge)

SpecAttachRace == Init /\ [][NextAttachRace]_vars

SweepLimit == 1

\* where("processed", "==", false).orderBy("scrapedAt", "asc").limit(limit)
Unprocessed(rs, limit) ==
    Slice(SelectSeq(IdsAsc(rs), LAMBDA d : ~rs[d].processed), limit)

\* a sweep starts: the query of processUnprocessedArticles
SweepQuery ==
    /\ Quiet
    /\ sweep.queue = <<>>
    /\ Unprocessed(raw, SweepLimit) # <<>>
    /\ sweep' = [sweep EXCEPT !.queue = Unprocessed(raw, SweepLimit)]
    /\ UNCHANGED <<loop, failures, clock, scrape, triggered, detected, now, raw, articles, clusters, run, result>>

\* the loop of the sweep: await this.processArticle(doc.id) for the next
\* document of the snapshot, once the previous call has returned
SweepProcess ==
    /\ Quiet
    /\ sweep.queue # <<>>
    /\ sweep' = [sweep EXCEPT !.queue = Tail(@),
                              !.handed = @ \cup {Head(sweep.queue)}]
    /\ run' = [run EXCEPT ![1] = [Idle EXCEPT !.pc = "getRawArticle",
                                              !.arg = Head(sweep.queue)]]
    /\ UNCHANGED <<loop, failures, clock, scrape, triggered, detected, now, raw, articles, clusters, result>>

\* the judge finds nothing to merge: its verdict is SEPARATE with either
\* value of isDuplicate; the other capabilities answer, the store works
EnvSweep ==
    [maxArticles |-> MaxRaw, maxClusters |-> MaxRaw,
     store |-> {"ok"},
     judge |-> {r \in PipelineReplies :
                   /\ r.recommendation = "SEPARATE"
                   /\ r.matchingArticleIds = <<>>},
     categorize |-> {[failed |-> FALSE, mainCategory |-> " Politique "]},
     ai |-> {"ok"},
     rewrite |-> {RewriteKeepsTitle},
     breaking |-> {[failed |-> FALSE, isBreakingNews |-> FALSE,
                    urgencyLevel |-> ""]}]

\* the steps of a run that never enters the cluster branch
Novel(p, E) ==
    \/ GetRawArticle(p, E)
    \/ DetectDuplicates(p, E)
    \/ Dispatch(p)
    \/ CategorizeArticle(p, E)
    \/ ExtractEntities(p, E)
    \/ RewriteArticle(p, E)
    \/ DetectBreakingNews(p, E)
    \/ SaveProcessedArticle(p, E)
    \/ MarkAsProcessed(p, E)
    \/ Finish(p)

\* ingestion between the runs, and the sweeps
NextSweep ==
    \/ Quiet /\ sweep.queue = <<>> /\ Ingest
    \/ SweepQuery
    \/ SweepProcess
    \/ Novel(1, EnvSweep)

\* the schedule starts sweep after sweep, a sweep goes through its
\* snapshot, and a run goes on to its end
FairSweep ==
    /\ WF_vars(SweepQuery)
    /\ WF_vars(SweepProcess)
    /\ WF_vars(Novel(1, EnvSweep))

SpecSweep == Init /\ [][NextSweep]_vars /\ FairSweep

\* C38: under repeated sweeps and a working store, every raw article that
\* is stored and unprocessed is eventually handed to processArticle by a
\* sweep, or processed
C38_EveryUnprocessedArticleIsSwept ==
    \A a \in RawIds :
        (Stored(a) /\ ~raw[a].processed)
            ~> (a \in sweep.handed \/ (Stored(a) /\ raw[a].processed))

\* C39: every raw article with processed=true and skipped not true is
\* referenced by the sourceArticleIds of some ProcessedArticle or is a
\* member of some cluster
C39_ProcessedLeavesATrace ==
    \A a \in 1..Len(raw) :
        (raw[a].processed /\ ~raw[a].skipped)
            => \/ \E n \in 1..Len(articles) :
                     a \in Range(articles[n].sourceArticleIds)
               \/ ClustersOf(a) # {}

C39_Witness ==
    \E a, b \in 1..Len(raw) :
        /\ raw[a].processed /\ ~raw[a].skipped /\ ArticlesOf(a) # {}
        /\ ClustersOf(a) = {}
        /\ raw[b].processed /\ ~raw[b].skipped /\ ClustersOf(b) # {}
        /\ ArticlesOf(b) = {}

=============================================================================
